---- MODULE Spec2Model ----
(***************************************************************************)
(* Model of the serial memory drivers of the Memories repository: the      *)
(* generic I2C EEPROM driver (EEPROM.c), its device profiles, its address  *)
(* codec, its paged read/write loops and its wait loops, together with the *)
(* deadline-based wait loops of AT24MAC402.c and 47x16.c.  The I2C         *)
(* transport and the millisecond clock are the environment: a mock device  *)
(* that stores bytes by decoded address, answers each transfer with an     *)
(* error code, and a 32-bit clock that advances between two readings.      *)
(***************************************************************************)
EXTENDS Integers, Sequences, FiniteSets, TLC

(***************************************************************************)
(* Bounds of the model                                                     *)
(***************************************************************************)
\* longest request taken from the dense range of sizes
MaxSize == 2
\* largest number of transfers the transport fails in one behaviour
MaxFaults == 1
\* page sizes up to this one also get a request longer than a whole page
LongPage == 16
\* number of API calls made on one device handle in one behaviour
MaxCalls == 2
\* the address codec is exercised on every address below this one ...
CodecDense == 600
\* ... and on the last and first address of every block of this many bytes
CodecStride == 4096

(***************************************************************************)
(* Integer helpers: the C operators on unsigned values                     *)
(***************************************************************************)
\* A uint32_t is kept as its two 16-bit halves <<high, low>>, so that the full
\* 32-bit range and its wrap are computed exactly.
W16 == 2 ^ 16

UINT32_MAX == <<W16 - 1, W16 - 1>>

\* the uint32_t of a small non-negative integer
U32(n) == <<(n \div W16) % W16, n % W16>>

\* x + y in uint32_t
U32Add(x, y) ==
  LET lo == x[2] + y[2]
  IN <<(x[1] + y[1] + (lo \div W16)) % W16, lo % W16>>

\* x - y in uint32_t
U32Sub(x, y) ==
  LET borrow == IF x[2] < y[2] THEN 1 ELSE 0
  IN <<(x[1] - y[1] - borrow + 2 * W16) % W16, (x[2] - y[2] + W16) % W16>>

U32Gt(x, y) == x[1] > y[1] \/ (x[1] = y[1] /\ x[2] > y[2])

U32Ge(x, y) == x = y \/ U32Gt(x, y)

Pow2(n) == 2 ^ n

Shr(x, n) == x \div Pow2(n)

RECURSIVE BitAnd(_, _)
BitAnd(a, b) ==
  IF a = 0 \/ b = 0 THEN 0
  ELSE (a % 2) * (b % 2) + 2 * BitAnd(a \div 2, b \div 2)

RECURSIVE BitOr(_, _)
BitOr(a, b) ==
  IF a = 0 THEN b
  ELSE IF b = 0 THEN a
  ELSE (IF (a % 2) + (b % 2) > 0 THEN 1 ELSE 0) + 2 * BitOr(a \div 2, b \div 2)

\* ~x of a uint8_t operand, seen through a later & with a uint8_t value
BitNot8(x) == 255 - x

Min(a, b) == IF a < b THEN a ELSE b

(***************************************************************************)
(* I2C interface constants and error codes                                 *)
(***************************************************************************)
I2C_READ_ORMASK == 1
I2C_WRITE_ANDMASK == 254

ERR_NONE == "ERR_NONE"
ERR__I2C_NACK == "ERR__I2C_NACK"
ERR__I2C_NACK_DATA == "ERR__I2C_NACK_DATA"
ERR__I2C_OTHER_BUSY == "ERR__I2C_OTHER_BUSY"
ERR__NOT_READY == "ERR__NOT_READY"
ERR__I2C_INVALID_ADDRESS == "ERR__I2C_INVALID_ADDRESS"
ERR__I2C_INVALID_COMMAND == "ERR__I2C_INVALID_COMMAND"
ERR__OUT_OF_MEMORY == "ERR__OUT_OF_MEMORY"
ERR__OUT_OF_RANGE == "ERR__OUT_OF_RANGE"
ERR__DEVICE_TIMEOUT == "ERR__DEVICE_TIMEOUT"

\* the older drivers name the same value ERR_OK
ERR_OK == ERR_NONE

\* what the transport may answer to one transfer
TransportResults == {ERR_NONE, ERR__I2C_NACK, ERR__I2C_NACK_DATA, ERR__I2C_OTHER_BUSY}

(***************************************************************************)
(* eEEPROM_ChipSelect, eEEPROM_AddressType                                 *)
(***************************************************************************)
EEPROM_NO_CHIP_ADDRESS_SELECT == 0
EEPROM_CHIP_ADDRESS_A2 == 4
EEPROM_CHIP_ADDRESS_A2A1 == 6
EEPROM_CHIP_ADDRESS_A2A1A0 == 7

EEPROM_ADDRESS_1Byte == 1
EEPROM_ADDRESS_1Byte_plus_A0 == 33
EEPROM_ADDRESS_1Byte_plus_A1A0 == 97
EEPROM_ADDRESS_1Byte_plus_A2A1A0 == 225
EEPROM_ADDRESS_2Bytes == 2
EEPROM_ADDRESS_2Byte_plus_A1A0 == 98
EEPROM_ADDRESS_Bytes_MASK == 15
EEPROM_ADDRESS_plus_Ax_MASK == 224

(***************************************************************************)
(* The EEPROM_Conf tables of EEPROM.c                                      *)
(***************************************************************************)
Conf(cs, at, pwt, ps, total, clk) ==
  [ChipAddress |-> 160, ChipSelect |-> cs, AddressType |-> at,
   PageWriteTime |-> pwt, PageSize |-> ps, OffsetAddress |-> 0,
   TotalByteSize |-> total, MaxI2CclockSpeed |-> clk]

AT24C01A_1V8_Conf == Conf(EEPROM_CHIP_ADDRESS_A2A1A0, EEPROM_ADDRESS_1Byte, 5, 8, 16 * 8, 100000)
AT24C01A_Conf == Conf(EEPROM_CHIP_ADDRESS_A2A1A0, EEPROM_ADDRESS_1Byte, 5, 8, 16 * 8, 400000)
AT24C02_1V8_Conf == Conf(EEPROM_CHIP_ADDRESS_A2A1A0, EEPROM_ADDRESS_1Byte, 5, 8, 32 * 8, 100000)
AT24C02_Conf == Conf(EEPROM_CHIP_ADDRESS_A2A1A0, EEPROM_ADDRESS_1Byte, 5, 8, 32 * 8, 400000)
AT24C04_1V8_Conf == Conf(EEPROM_CHIP_ADDRESS_A2A1, EEPROM_ADDRESS_1Byte_plus_A0, 5, 16, 32 * 16, 100000)
AT24C04_Conf == Conf(EEPROM_CHIP_ADDRESS_A2A1, EEPROM_ADDRESS_1Byte_plus_A0, 5, 16, 32 * 16, 400000)
AT24C08A_1V8_Conf == Conf(EEPROM_CHIP_ADDRESS_A2, EEPROM_ADDRESS_1Byte_plus_A1A0, 5, 16, 64 * 16, 100000)
AT24C08A_Conf == Conf(EEPROM_CHIP_ADDRESS_A2, EEPROM_ADDRESS_1Byte_plus_A1A0, 5, 16, 64 * 16, 400000)
AT24C16A_1V8_Conf == Conf(EEPROM_NO_CHIP_ADDRESS_SELECT, EEPROM_ADDRESS_1Byte_plus_A2A1A0, 5, 16, 128 * 16, 100000)
AT24C16A_Conf == Conf(EEPROM_NO_CHIP_ADDRESS_SELECT, EEPROM_ADDRESS_1Byte_plus_A2A1A0, 5, 16, 128 * 16, 400000)
_24AA256_1V8_Conf == Conf(EEPROM_CHIP_ADDRESS_A2A1A0, EEPROM_ADDRESS_2Bytes, 5, 64, 512 * 64, 100000)
_24AA256_Conf == Conf(EEPROM_CHIP_ADDRESS_A2A1A0, EEPROM_ADDRESS_2Bytes, 5, 64, 512 * 64, 400000)
_24LC256_Conf == Conf(EEPROM_CHIP_ADDRESS_A2A1A0, EEPROM_ADDRESS_2Bytes, 5, 64, 512 * 64, 400000)
_24FC256_1V8_Conf == Conf(EEPROM_CHIP_ADDRESS_A2A1A0, EEPROM_ADDRESS_2Bytes, 5, 64, 512 * 64, 400000)
_24FC256_Conf == Conf(EEPROM_CHIP_ADDRESS_A2A1A0, EEPROM_ADDRESS_2Bytes, 5, 64, 512 * 64, 1000000)
AT24CM02_1V7_Conf == Conf(EEPROM_CHIP_ADDRESS_A2, EEPROM_ADDRESS_2Byte_plus_A1A0, 10, 256, 1024 * 256, 400000)
AT24CM02_Conf == Conf(EEPROM_CHIP_ADDRESS_A2, EEPROM_ADDRESS_2Byte_plus_A1A0, 10, 256, 1024 * 256, 1000000)
AT24MAC402_1V7_Conf == Conf(EEPROM_CHIP_ADDRESS_A2A1A0, EEPROM_ADDRESS_1Byte, 5, 16, 16 * 16, 400000)
AT24MAC402_Conf == Conf(EEPROM_CHIP_ADDRESS_A2A1A0, EEPROM_ADDRESS_1Byte, 5, 16, 16 * 16, 1000000)
AT24MAC602_1V7_Conf == Conf(EEPROM_CHIP_ADDRESS_A2A1A0, EEPROM_ADDRESS_1Byte, 5, 16, 16 * 16, 400000)
AT24MAC602_Conf == Conf(EEPROM_CHIP_ADDRESS_A2A1A0, EEPROM_ADDRESS_1Byte, 5, 16, 16 * 16, 1000000)
EERAM47L04_Conf == Conf(EEPROM_CHIP_ADDRESS_A2A1, EEPROM_ADDRESS_2Bytes, 8, 512, 512, 1000000)
EERAM47C04_Conf == Conf(EEPROM_CHIP_ADDRESS_A2A1, EEPROM_ADDRESS_2Bytes, 8, 512, 512, 1000000)
EERAM47L16_Conf == Conf(EEPROM_CHIP_ADDRESS_A2A1, EEPROM_ADDRESS_2Bytes, 25, 2048, 2048, 1000000)
EERAM47C16_Conf == Conf(EEPROM_CHIP_ADDRESS_A2A1, EEPROM_ADDRESS_2Bytes, 25, 2048, 2048, 1000000)

\* every profile EEPROM.c ships
ShippedConfs ==
  {AT24C01A_1V8_Conf, AT24C01A_Conf, AT24C02_1V8_Conf, AT24C02_Conf,
   AT24C04_1V8_Conf, AT24C04_Conf, AT24C08A_1V8_Conf, AT24C08A_Conf,
   AT24C16A_1V8_Conf, AT24C16A_Conf,
   _24AA256_1V8_Conf, _24AA256_Conf, _24LC256_Conf, _24FC256_1V8_Conf, _24FC256_Conf,
   AT24CM02_1V7_Conf, AT24CM02_Conf,
   AT24MAC402_1V7_Conf, AT24MAC402_Conf, AT24MAC602_1V7_Conf, AT24MAC602_Conf,
   EERAM47L04_Conf, EERAM47C04_Conf, EERAM47L16_Conf, EERAM47C16_Conf}

\* EEPROM_ADDR(A2, A1, A0): the pin-strap bits of the chip address
EEPROM_ADDR(A2, A1, A0) == (A2 % 2) * 8 + (A1 % 2) * 4 + (A0 % 2) * 2


(***************************************************************************)
(* __EEPROM_WriteAddress: the address codec                                *)
(***************************************************************************)
\* AddrBytes = AddressType & EEPROM_ADDRESS_Bytes_MASK
AddrBytes(c) == BitAnd(c.AddressType, EEPROM_ADDRESS_Bytes_MASK)

\* AddrTypeAx = (AddressType & EEPROM_ADDRESS_plus_Ax_MASK) >> 4
AddrTypeAx(c) == Shr(BitAnd(c.AddressType, EEPROM_ADDRESS_plus_Ax_MASK), 4)

\* address += pConf->OffsetAddress (the addresses of the model stay far below 2^31)
OffsetApplied(c, a) == a + c.OffsetAddress

\* faulty variant: the address bytes are sent least significant byte first
AddressBytes_LittleEndian(c, a) ==
  [i \in 1..AddrBytes(c) |-> BitAnd(Shr(OffsetApplied(c, a), (i - 1) * 8), 255)]

\* Address[z] = (address >> ((AddrBytes - z - 1) * 8)) & 0xFF, z = 0 is sent first
AddressBytes(c, a) ==
  [i \in 1..AddrBytes(c) |->
     BitAnd(Shr(OffsetApplied(c, a), (AddrBytes(c) - i) * 8), 255)]

\* faulty variant: the pin straps are not cleared in the positions that carry address bits
WriteAddressChipAddr_Unmasked(c, strap, a) ==
  BitAnd(BitOr(BitOr(c.ChipAddress, strap),
               BitAnd(Shr(OffsetApplied(c, a), 8 * AddrBytes(c) - 1), AddrTypeAx(c))),
         I2C_WRITE_ANDMASK)

\* (ChipAddress | (AddrA2A1A0 & ~AddrTypeAx) | ((address >> (8 * AddrBytes - 1)) & AddrTypeAx)) & I2C_WRITE_ANDMASK
WriteAddressChipAddr(c, strap, a) ==
  BitAnd(BitOr(BitOr(c.ChipAddress, BitAnd(strap, BitNot8(AddrTypeAx(c)))),
               BitAnd(Shr(OffsetApplied(c, a), 8 * AddrBytes(c) - 1), AddrTypeAx(c))),
         I2C_WRITE_ANDMASK)

\* the packet __EEPROM_WriteAddress hands to fnI2C_Transfer
AddressPacket(c, strap, a) ==
  [kind |-> "addr", ChipAddr |-> WriteAddressChipAddr(c, strap, a), Start |-> TRUE,
   Buffer |-> AddressBytes(c, a), BufferSize |-> AddrBytes(c), Stop |-> FALSE]

\* I2C_INTERFACE8_NO_DATA_DESC((ChipAddress | AddrA2A1A0) & I2C_WRITE_ANDMASK) of EEPROM_IsReady
IsReadyPacket(c, strap) ==
  [kind |-> "probe", ChipAddr |-> BitAnd(BitOr(c.ChipAddress, strap), I2C_WRITE_ANDMASK),
   Start |-> TRUE, Buffer |-> << >>, BufferSize |-> 0, Stop |-> TRUE]

\* I2C_INTERFACE8_TX_DATA_DESC(ChipAddrW, false, data, size, true, ...) of __EEPROM_WritePage
WriteDataPacket(c, strap, bytes) ==
  [kind |-> "wdata",
   ChipAddr |-> BitAnd(BitAnd(BitOr(c.ChipAddress, strap), I2C_WRITE_ANDMASK), I2C_WRITE_ANDMASK),
   Start |-> FALSE, Buffer |-> bytes, BufferSize |-> Len(bytes), Stop |-> TRUE]

\* I2C_INTERFACE8_RX_DATA_DESC(ChipAddrR, true, data, size, true, ...) of __EEPROM_ReadPage
ReadDataPacket(c, strap, n) ==
  [kind |-> "rdata",
   ChipAddr |-> BitOr(BitOr(BitOr(c.ChipAddress, strap), I2C_READ_ORMASK), I2C_READ_ORMASK),
   Start |-> TRUE, Buffer |-> << >>, BufferSize |-> n, Stop |-> TRUE]

NoPacket == [kind |-> "none", ChipAddr |-> 0, Start |-> FALSE, Buffer |-> << >>,
             BufferSize |-> 0, Stop |-> FALSE]

\* the wrapped branch without its - 1
EEPROM_TIME_DIFF_OneShort(begin, end) ==
  IF U32Ge(end, begin)
    THEN U32Sub(end, begin)
    ELSE U32Sub(UINT32_MAX, U32Sub(begin, end))

\* EEPROM_TIME_DIFF(begin, end) on uint32_t operands
EEPROM_TIME_DIFF(begin, end) ==
  IF U32Ge(end, begin)
    THEN U32Sub(end, begin)
    ELSE U32Sub(UINT32_MAX, U32Sub(U32Sub(begin, end), U32(1)))

(***************************************************************************)
(* The mock device behind the transport                                    *)
(***************************************************************************)
\* value of a big-endian byte sequence
RECURSIVE BigEndian(_)
BigEndian(bytes) ==
  IF bytes = << >> THEN 0
  ELSE bytes[Len(bytes)] + 256 * BigEndian(SubSeq(bytes, 1, Len(bytes) - 1))

\* the device's reading of an address phase: the chip-address bits the profile
\* declares as address bits are the bits above the address bytes
DecodeAddress(c, chipAddr, bytes) ==
  Shr(BitAnd(chipAddr, AddrTypeAx(c)), 1) * Pow2(8 * Len(bytes)) + BigEndian(bytes)

ErasedByte == 255

MemByte(m, a) == IF a \in DOMAIN m THEN m[a] ELSE ErasedByte

\* a page write: the device's address counter rolls over inside the page
PageWriteTarget(c, ptr, i) == (ptr - (ptr % c.PageSize)) + ((ptr + i) % c.PageSize)

MockWrite(c, m, ptr, bytes) ==
  LET n == Len(bytes)
      targets == {PageWriteTarget(c, ptr, i) : i \in 0..(n - 1)}
      \* the last byte sent to a cell is the one that stays
      lastIdx(a) == CHOOSE i \in 0..(n - 1) :
                       /\ PageWriteTarget(c, ptr, i) = a
                       /\ \A j \in 0..(n - 1) : PageWriteTarget(c, ptr, j) = a => j <= i
  IN [a \in (DOMAIN m) \cup targets |->
        IF a \in targets THEN bytes[lastIdx(a) + 1] ELSE m[a]]

\* a sequential read: the address counter rolls over at the end of the array
MockRead(c, m, ptr, n) == [i \in 1..n |-> MemByte(m, (ptr + i - 1) % c.TotalByteSize)]


(***************************************************************************)
(* State                                                                   *)
(***************************************************************************)
VARIABLES
  conf,         \* pComp->Conf: the device profile of the handle
  AddrA2A1A0,   \* pComp->AddrA2A1A0: the pin-strap bits
  clock,        \* the millisecond counter behind fnGetCurrentms, uint32_t
  mem,          \* the mock device's cells, by address
  devPtr,       \* the mock device's address counter, set by an address phase
  op,           \* the API function being executed
  pc,           \* its position
  address,      \* local: address
  size,         \* local: size
  cursor,       \* local: data, as an offset into the caller's buffer
  PageRemData,  \* local: PageRemData
  StartTime,    \* local: StartTime (or Timeout in the deadline loops)
  Error,        \* local: Error
  result,       \* the value the call returned
  wdata,        \* the caller's buffer of a write
  rbuf,         \* the caller's buffer of a read
  reqAddr,      \* the address argument of the call
  reqSize,      \* the size argument of the call
  ncalls,       \* number of fnI2C_Transfer calls made by the call
  nfault,       \* number of transfers the transport has failed so far
  chunks,       \* the page transfers that returned: <<address, length, error, ms retried>>
  lastPkt,      \* the last packet handed to fnI2C_Transfer
  elapsed,      \* the time difference seen by the last timeout decision
  waited,       \* the milliseconds that really passed since StartTime was taken
  calls,        \* number of API calls made so far
  prev,         \* the previous call: its function, arguments and result
  flags,        \* the boolean arguments of the call: <<forceStore, waitEndOfStore>>
  InternalConfig, \* the handle's InternalConfig byte of the EERAM drivers
  dma,          \* the transport's DMA engine: the transfer it was last handed
  trace         \* the packets an EERAM call has handed to the transport, in order

vars == <<conf, AddrA2A1A0, clock, mem, devPtr, op, pc, address, size, cursor,
          PageRemData, StartTime, Error, result, wdata, rbuf, reqAddr, reqSize,
          ncalls, nfault, chunks, lastPkt, elapsed, waited, calls, prev, flags,
          InternalConfig, dma, trace>>

\* the handle and the transport state behind it that the calls of EEPROM.c leave alone
handleVars == <<conf, AddrA2A1A0, InternalConfig, dma, trace>>
argVars == <<wdata, reqAddr, reqSize, calls, prev, flags>>

(***************************************************************************)
(* Inputs                                                                  *)
(***************************************************************************)
\* a handle and the clock it meets: pins strapped to ground with the counter far
\* from its wrap, pins strapped to +V with the counter just before its wrap
HandleInputs ==
  {<<EEPROM_ADDR(0, 0, 0), U32(0)>>,
   <<EEPROM_ADDR(1, 1, 1), U32Sub(UINT32_MAX, U32(1))>>}

\* the milliseconds that pass between the start of a wait and a timeout
\* decision, or between two timeout decisions, for a wait of nominal length T
TickSet(T) == {0, T, T + 1, T + 2}

\* start addresses: first cell, end of the first page, the last address the
\* address bytes alone can express, and the end of the array
AddrSet(c) ==
  {a \in {0, c.PageSize - 1, Pow2(8 * AddrBytes(c)) - 1,
          c.TotalByteSize - 1, c.TotalByteSize} :
     a <= c.TotalByteSize}

SizeSet(c) ==
  (0..MaxSize) \cup (IF c.PageSize <= LongPage THEN {c.PageSize + 2} ELSE {})

DataSeeds == {0, 250}

\* the caller's bytes: no two neighbours are equal
Pattern(seed, n) == [i \in 1..n |-> (seed + 7 * i) % 256]

(***************************************************************************)
(* Pure steps of EEPROM_ReadData / EEPROM_WriteData                        *)
(***************************************************************************)
\* (address + size) > pConf->TotalByteSize, the sum taken in uint32_t
\* faulty variant: a request ending exactly at the end of the array is refused
OutOfMemory_Inclusive(c, a, n) == U32Ge(U32Add(U32(a), U32(n)), U32(c.TotalByteSize))

OutOfMemory(c, a, n) == U32Gt(U32Add(U32(a), U32(n)), U32(c.TotalByteSize))

\* faulty variant: the chunk is the whole remainder, never cut at the page end
PageRem_Unclipped(c, a, n) == n

\* faulty variant: a request that starts at the last byte of a page gets an empty chunk
PageRem_EmptyAtPageEnd(c, a, n) ==
  LET rem == (c.PageSize - 1) - BitAnd(a, c.PageSize - 1)
  IN IF n < rem THEN n ELSE rem

\* faulty variant: the chunk is cut to the page size, whatever the offset in the page
PageRem_FromPageStart(c, a, n) == Min(n, c.PageSize)

\* PageRemData = PageSize - (address & (PageSize - 1)); then the lesser of it and size
PageRem(c, a, n) ==
  LET rem == c.PageSize - BitAnd(a, c.PageSize - 1)
  IN IF n < rem THEN n ELSE rem

\* faulty variant: the timeout is taken as soon as the elapsed time reaches PageWriteTime + 1
TimeoutElapsed_AtBound(c, start, now) ==
  U32Ge(EEPROM_TIME_DIFF(start, now), U32(c.PageWriteTime + 1))

\* EEPROM_TIME_DIFF(StartTime, now) > (PageWriteTime + 1u)
TimeoutElapsed(c, start, now) ==
  U32Gt(EEPROM_TIME_DIFF(start, now), U32(c.PageWriteTime + 1))

\* faulty variant: a NACK on an address byte is handed back as the transport gave it
AddressPhaseError_NackDataRaw(e) ==
  IF e = ERR__I2C_NACK THEN ERR__NOT_READY ELSE e

\* the last two lines of __EEPROM_WriteAddress
AddressPhaseError(e) ==
  IF e = ERR__I2C_NACK THEN ERR__NOT_READY
  ELSE IF e = ERR__I2C_NACK_DATA THEN ERR__I2C_INVALID_ADDRESS
  ELSE e

\* the transport may fail a transfer while its fault budget lasts
MayAnswer(r) == r = ERR_NONE \/ nfault < MaxFaults

Faults(r) == IF r = ERR_NONE THEN 0 ELSE 1

(***************************************************************************)
(* Init                                                                    *)
(***************************************************************************)
\* no timeout decision taken yet
NoElapsed == <<-1, -1>>

\* the DMA engine before any transfer was handed to it
NoDma == [busy |-> FALSE, done |-> FALSE, number |-> 0,
          xfer |-> [dir |-> "none", addr |-> 0, size |-> 0]]

NoCall == [op |-> "none", addr |-> 0, size |-> 0, result |-> "none", data |-> << >>]

Init ==
  /\ conf \in ShippedConfs
  /\ \E h \in HandleInputs : AddrA2A1A0 = h[1] /\ clock = h[2]
  /\ mem = << >>
  /\ devPtr = 0
  /\ op = "none"
  /\ pc = "idle"
  /\ address = 0
  /\ size = 0
  /\ cursor = 0
  /\ PageRemData = 0
  /\ StartTime = U32(0)
  /\ Error = ERR_NONE
  /\ result = "none"
  /\ wdata = << >>
  /\ rbuf = << >>
  /\ reqAddr = 0
  /\ reqSize = 0
  /\ ncalls = 0
  /\ nfault = 0
  /\ chunks = << >>
  /\ lastPkt = NoPacket
  /\ elapsed = NoElapsed
  /\ waited = 0
  /\ calls = 0
  /\ prev = NoCall
  /\ flags = <<FALSE, FALSE>>
  /\ InternalConfig = 0
  /\ dma = NoDma
  /\ trace = << >>

CanCall == pc \in {"idle", "ret"} /\ calls < MaxCalls

\* what is remembered of the call that has just returned
Returned == [op |-> op, addr |-> reqAddr, size |-> reqSize, result |-> result,
             data |-> IF op = "WriteData" THEN wdata ELSE rbuf]

\* entry of any call: fresh locals and counters
Enter(name, a, n) ==
  /\ op' = name
  /\ reqAddr' = a
  /\ reqSize' = n
  /\ address' = a
  /\ size' = n
  /\ cursor' = 0
  /\ PageRemData' = 0
  /\ Error' = ERR_NONE
  /\ ncalls' = 0
  /\ chunks' = << >>
  /\ lastPkt' = NoPacket
  /\ elapsed' = NoElapsed
  /\ waited' = 0
  /\ calls' = calls + 1
  /\ prev' = IF pc = "ret" THEN Returned ELSE NoCall

(***************************************************************************)
(* EEPROM_WriteData and EEPROM_ReadData                                    *)
(***************************************************************************)
\* entry and the upfront check of the range
EEPROM_WriteData_Call(a, n, seed) ==
  /\ CanCall
  /\ calls = 0
  /\ Enter("WriteData", a, n)
  /\ wdata' = Pattern(seed, n)
  /\ rbuf' = << >>
  /\ IF OutOfMemory(conf, a, n)
       THEN pc' = "ret" /\ result' = ERR__OUT_OF_MEMORY
       ELSE pc' = "loop" /\ result' = "none"
  /\ UNCHANGED <<handleVars, clock, mem, devPtr, StartTime, flags, nfault>>

\* a read is either the first call, or reads back the range just written
EEPROM_ReadData_Call(a, n) ==
  /\ CanCall
  /\ \/ calls = 0
     \/ /\ pc = "ret" /\ op = "WriteData" /\ result = ERR_NONE
        /\ a = reqAddr /\ n = reqSize
  /\ Enter("ReadData", a, n)
  /\ rbuf' = [i \in 1..n |-> 0]
  /\ IF OutOfMemory(conf, a, n)
       THEN pc' = "ret" /\ result' = ERR__OUT_OF_MEMORY
       ELSE pc' = "loop" /\ result' = "none"
  /\ UNCHANGED <<handleVars, clock, mem, devPtr, StartTime, wdata, flags, nfault>>

\* while (size > 0): cut the next chunk and start its timeout, or return
PageLoop ==
  /\ pc = "loop"
  /\ op \in {"WriteData", "ReadData"}
  /\ IF size > 0
       THEN /\ PageRemData' = PageRem(conf, address, size)
            /\ StartTime' = clock
            /\ waited' = 0
            /\ pc' = "page_addr"
            /\ UNCHANGED <<clock, result>>
       ELSE /\ pc' = "ret"
            /\ result' = ERR_NONE
            /\ UNCHANGED <<PageRemData, clock, StartTime, waited>>
  /\ UNCHANGED <<handleVars, argVars, mem, devPtr, op, address, size, cursor, Error,
                 rbuf, ncalls, nfault, chunks, lastPkt, elapsed>>

\* __EEPROM_ReadPage / __EEPROM_WritePage: the size check and the address phase
PageAddressPhase ==
  /\ pc = "page_addr"
  /\ IF PageRemData > conf.PageSize
       THEN /\ Error' = ERR__OUT_OF_RANGE
            /\ pc' = "page_ret"
            /\ UNCHANGED <<devPtr, ncalls, nfault, lastPkt>>
       ELSE \E r \in TransportResults :
              /\ MayAnswer(r)
              /\ lastPkt' = AddressPacket(conf, AddrA2A1A0, address)
              /\ ncalls' = ncalls + 1
              /\ nfault' = nfault + Faults(r)
              /\ Error' = AddressPhaseError(r)
              /\ devPtr' = IF r = ERR_NONE
                             THEN DecodeAddress(conf, lastPkt'.ChipAddr, lastPkt'.Buffer)
                             ELSE devPtr
              /\ pc' = IF r = ERR_NONE THEN "page_data" ELSE "page_ret"
  /\ UNCHANGED <<handleVars, argVars, clock, mem, op, address, size, cursor, PageRemData,
                 StartTime, result, rbuf, chunks, elapsed, waited>>

\* the data phase of __EEPROM_WritePage
WritePageData ==
  /\ pc = "page_data"
  /\ op = "WriteData"
  /\ \E r \in TransportResults :
       /\ MayAnswer(r)
       /\ lastPkt' = WriteDataPacket(conf, AddrA2A1A0,
                                     SubSeq(wdata, cursor + 1, cursor + PageRemData))
       /\ ncalls' = ncalls + 1
       /\ nfault' = nfault + Faults(r)
       /\ Error' = r
       /\ mem' = IF r = ERR_NONE THEN MockWrite(conf, mem, devPtr, lastPkt'.Buffer) ELSE mem
  /\ pc' = "page_ret"
  /\ UNCHANGED <<handleVars, argVars, clock, devPtr, op, address, size, cursor, PageRemData,
                 StartTime, result, rbuf, chunks, elapsed, waited>>

\* the data phase of __EEPROM_ReadPage
ReadPageData ==
  /\ pc = "page_data"
  /\ op = "ReadData"
  /\ \E r \in TransportResults :
       /\ MayAnswer(r)
       /\ lastPkt' = ReadDataPacket(conf, AddrA2A1A0, PageRemData)
       /\ ncalls' = ncalls + 1
       /\ nfault' = nfault + Faults(r)
       /\ Error' = r
       /\ rbuf' = IF r = ERR_NONE
                    THEN [i \in 1..Len(rbuf) |->
                            IF i > cursor /\ i <= cursor + PageRemData
                              THEN MockRead(conf, mem, devPtr, PageRemData)[i - cursor]
                              ELSE rbuf[i]]
                    ELSE rbuf
  /\ pc' = "page_ret"
  /\ UNCHANGED <<handleVars, argVars, clock, mem, devPtr, op, address, size, cursor,
                 PageRemData, StartTime, result, chunks, elapsed, waited>>

\* faulty variant: a page primitive that is not ready is not retried
PageOutcome_NoRetry(e) == IF e = ERR_NONE THEN "break" ELSE "return"

\* faulty variant: only a not-ready page is looked at, any other error is dropped
PageOutcome_Ignore(e) == IF e = ERR__NOT_READY THEN "retry" ELSE "break"

\* faulty variant: every error of the page primitive is retried
PageOutcome_RetryAll(e) == IF e = ERR_NONE THEN "break" ELSE "retry"

\* what the retry loop does with the error of the page primitive:
\* break, return Error, or go on to the timeout decision
PageOutcome(e) ==
  IF e = ERR_NONE THEN "break"
  ELSE IF e # ERR__NOT_READY THEN "return"
  ELSE "retry"

\* after the page primitive returned: advance, give the error back, or retry
PageReturn ==
  /\ pc = "page_ret"
  /\ IF PageOutcome(Error) = "break"
       THEN /\ address' = address + PageRemData
            /\ cursor' = cursor + PageRemData
            /\ size' = size - PageRemData
            /\ chunks' = Append(chunks, <<address, PageRemData, Error, waited>>)
            /\ pc' = "loop"
            /\ UNCHANGED <<clock, result, elapsed, waited>>
       ELSE IF PageOutcome(Error) = "return"
       THEN /\ pc' = "ret"
            /\ result' = Error
            /\ UNCHANGED <<clock, address, cursor, size, chunks, elapsed, waited>>
       ELSE \E tick \in TickSet(conf.PageWriteTime) :
              /\ clock' = U32Add(clock, U32(tick))
              /\ waited' = waited + tick
              /\ elapsed' = EEPROM_TIME_DIFF(StartTime, clock')
              /\ IF TimeoutElapsed(conf, StartTime, clock')
                   THEN pc' = "ret" /\ result' = ERR__DEVICE_TIMEOUT
                   ELSE pc' = "page_addr" /\ UNCHANGED result
              /\ UNCHANGED <<address, cursor, size, chunks>>
  /\ UNCHANGED <<handleVars, argVars, mem, devPtr, op, PageRemData, StartTime, Error,
                 rbuf, ncalls, nfault, lastPkt>>

(***************************************************************************)
(* EEPROM_IsReady and EEPROM_WaitEndOfWrite                                *)
(***************************************************************************)
\* EEPROM_IsReady: what the transport's answer to the probe becomes
IsReadyResult(r) == r = ERR_NONE

\* a wait is the first call, or follows a write that returned success
CanWait == CanCall /\ (calls = 0 \/ (pc = "ret" /\ op = "WriteData" /\ result = ERR_NONE))

EEPROM_WaitEndOfWrite_Call ==
  /\ CanWait
  /\ Enter("WaitEndOfWrite", 0, 0)
  /\ StartTime' = clock
  /\ pc' = "wait_poll"
  /\ result' = "none"
  /\ UNCHANGED <<handleVars, clock, mem, devPtr, wdata, rbuf, flags, nfault>>

\* if (EEPROM_IsReady(pComp)) break;
WaitPoll ==
  /\ pc = "wait_poll"
  /\ op = "WaitEndOfWrite"
  /\ \E r \in TransportResults :
       /\ MayAnswer(r)
       /\ lastPkt' = IsReadyPacket(conf, AddrA2A1A0)
       /\ ncalls' = ncalls + 1
       /\ nfault' = nfault + Faults(r)
       /\ Error' = r
       /\ IF IsReadyResult(r)
            THEN pc' = "ret" /\ result' = ERR_NONE
            ELSE pc' = "wait_check" /\ UNCHANGED result
  /\ UNCHANGED <<handleVars, argVars, clock, mem, devPtr, op, address, size, cursor,
                 PageRemData, StartTime, rbuf, chunks, elapsed, waited>>

\* the timeout decision of EEPROM_WaitEndOfWrite
WaitCheck ==
  /\ pc = "wait_check"
  /\ op = "WaitEndOfWrite"
  /\ \E tick \in TickSet(conf.PageWriteTime) :
       /\ clock' = U32Add(clock, U32(tick))
       /\ waited' = waited + tick
       /\ elapsed' = EEPROM_TIME_DIFF(StartTime, clock')
       /\ IF TimeoutElapsed(conf, StartTime, clock')
            THEN pc' = "ret" /\ result' = ERR__DEVICE_TIMEOUT
            ELSE pc' = "wait_poll" /\ UNCHANGED result
  /\ UNCHANGED <<handleVars, argVars, mem, devPtr, op, address, size, cursor, PageRemData,
                 StartTime, Error, rbuf, ncalls, nfault, chunks, lastPkt>>

(***************************************************************************)
(* AT24MAC402_IsReady and AT24MAC402_WaitEndOfWrite                        *)
(***************************************************************************)
AT24MAC402_EEPROM_CHIPADDRESS_BASE == 160

\* the write time plus one, in ms, that AT24MAC402_WaitEndOfWrite adds to the clock
AT24MAC402_WaitTime == 6

\* I2C_INTERFACE8_NO_DATA_DESC(AT24MAC402_EEPROM_CHIPADDRESS_BASE | AddrA2A1A0)
AT24MAC402_IsReadyPacket(strap) ==
  [kind |-> "probe", ChipAddr |-> BitOr(AT24MAC402_EEPROM_CHIPADDRESS_BASE, strap),
   Start |-> TRUE, Buffer |-> << >>, BufferSize |-> 0, Stop |-> TRUE]

\* Timeout = fnGetCurrentms() + 6
DeadlineOf(now, wait) == U32Add(now, U32(wait))

\* fnGetCurrentms() >= Timeout
DeadlineReached(now, deadline) == U32Ge(now, deadline)

IsAT24MAC402 == conf \in {AT24MAC402_1V7_Conf, AT24MAC402_Conf}

AT24MAC402_WaitEndOfWrite_Call ==
  /\ CanWait
  /\ IsAT24MAC402
  /\ Enter("AT24MAC402_WaitEndOfWrite", 0, 0)
  /\ StartTime' = DeadlineOf(clock, AT24MAC402_WaitTime)
  /\ pc' = "wait_poll"
  /\ result' = "none"
  /\ UNCHANGED <<handleVars, clock, mem, devPtr, wdata, rbuf, flags, nfault>>

\* if (AT24MAC402_IsReady(pComp)) break;
AT24MAC402_WaitPoll ==
  /\ pc = "wait_poll"
  /\ op = "AT24MAC402_WaitEndOfWrite"
  /\ \E r \in TransportResults :
       /\ MayAnswer(r)
       /\ lastPkt' = AT24MAC402_IsReadyPacket(AddrA2A1A0)
       /\ ncalls' = ncalls + 1
       /\ nfault' = nfault + Faults(r)
       /\ Error' = r
       /\ IF IsReadyResult(r)
            THEN pc' = "ret" /\ result' = ERR_NONE
            ELSE pc' = "wait_check" /\ UNCHANGED result
  /\ UNCHANGED <<handleVars, argVars, clock, mem, devPtr, op, address, size, cursor,
                 PageRemData, StartTime, rbuf, chunks, elapsed, waited>>

\* if (fnGetCurrentms() >= Timeout) return ERR__DEVICE_TIMEOUT;
AT24MAC402_WaitCheck ==
  /\ pc = "wait_check"
  /\ op = "AT24MAC402_WaitEndOfWrite"
  /\ \E tick \in TickSet(AT24MAC402_WaitTime - 1) :
       /\ clock' = U32Add(clock, U32(tick))
       /\ waited' = waited + tick
       /\ IF DeadlineReached(clock', StartTime)
            THEN pc' = "ret" /\ result' = ERR__DEVICE_TIMEOUT
            ELSE pc' = "wait_poll" /\ UNCHANGED result
  /\ UNCHANGED <<handleVars, argVars, mem, devPtr, op, address, size, cursor, PageRemData,
                 StartTime, Error, rbuf, ncalls, nfault, chunks, lastPkt, elapsed>>

(***************************************************************************)
(* EERAM47x16_StoreSRAMtoEEPROM (47x16.c)                                  *)
(***************************************************************************)
EERAM47x16_REG_CHIPADDRESS_BASE == 48
EERAM47x16_CHIPADDRESS_MASK == 252
EERAM47x16_COMMAND_REGISTER_ADDR == 85
EERAM47x16_STORE_COMMAND == 51
EERAM47x16_ARRAY_MODIFIED == 128
EERAM47x16_STORE_TIMEOUT == 25

IsEERAM47x16 == conf \in {EERAM47L16_Conf, EERAM47C16_Conf}

\* ChipAddr of __EERAM47x16_WriteData for the control registers
EERAM47x16_RegChipAddr(strap) ==
  BitAnd(BitOr(EERAM47x16_REG_CHIPADDRESS_BASE, strap), EERAM47x16_CHIPADDRESS_MASK)

\* the transfer of EERAM47x16_ReadRegister
EERAM47x16_ReadRegisterPacket(strap) ==
  [kind |-> "rdata", ChipAddr |-> BitOr(EERAM47x16_RegChipAddr(strap), I2C_READ_ORMASK),
   Start |-> TRUE, Buffer |-> << >>, BufferSize |-> 1, Stop |-> TRUE]

\* the address phase of EERAM47x16_WriteRegister: one address byte for the registers
EERAM47x16_RegAddressPacket(strap, reg) ==
  [kind |-> "addr", ChipAddr |-> BitAnd(EERAM47x16_RegChipAddr(strap), I2C_WRITE_ANDMASK),
   Start |-> TRUE, Buffer |-> <<BitAnd(reg, 255)>>, BufferSize |-> 1, Stop |-> FALSE]

\* the data phase of EERAM47x16_WriteRegister
EERAM47x16_RegDataPacket(strap, value) ==
  [kind |-> "wdata", ChipAddr |-> EERAM47x16_RegChipAddr(strap),
   Start |-> FALSE, Buffer |-> <<value>>, BufferSize |-> 1, Stop |-> TRUE]

\* EERAM47x16_WriteRegister: a NACK of the data byte means an invalid command
WriteRegisterError(e) == IF e = ERR__I2C_NACK_DATA THEN ERR__I2C_INVALID_COMMAND ELSE e

\* the status byte the device may give: array-modified bit set or clear
StatusBytes == {0, EERAM47x16_ARRAY_MODIFIED}

\* a status read that keeps the caller waiting uses up the fault budget as well
MayShow(r, status) ==
  /\ MayAnswer(r)
  /\ (r = ERR_OK /\ BitAnd(status, EERAM47x16_ARRAY_MODIFIED) > 0) => nfault < MaxFaults

Busy(r, status) ==
  IF r # ERR_OK \/ BitAnd(status, EERAM47x16_ARRAY_MODIFIED) > 0 THEN 1 ELSE 0

EERAM47x16_StoreSRAMtoEEPROM_Call(forceStore, waitEndOfStore) ==
  /\ CanCall
  /\ calls = 0
  /\ IsEERAM47x16
  /\ Enter("EERAM47x16_StoreSRAMtoEEPROM", 0, 0)
  /\ flags' = <<forceStore, waitEndOfStore>>
  /\ pc' = IF forceStore THEN "store_cmd_addr" ELSE "store_status"
  /\ result' = "none"
  /\ UNCHANGED <<handleVars, clock, mem, devPtr, StartTime, wdata, rbuf, nfault>>

\* forceStore == false: read the status register, store only a modified array
StoreReadStatus ==
  /\ pc = "store_status"
  /\ \E r \in TransportResults, status \in StatusBytes :
       /\ MayAnswer(r)
       /\ lastPkt' = EERAM47x16_ReadRegisterPacket(AddrA2A1A0)
       /\ ncalls' = ncalls + 1
       /\ nfault' = nfault + Faults(r)
       /\ Error' = r
       /\ IF r # ERR_OK
            THEN pc' = "ret" /\ result' = r
            ELSE IF BitAnd(status, EERAM47x16_ARRAY_MODIFIED) > 0
            THEN pc' = "store_cmd_addr" /\ UNCHANGED result
            ELSE pc' = "ret" /\ result' = r
  /\ UNCHANGED <<handleVars, argVars, clock, mem, devPtr, op, address, size, cursor,
                 PageRemData, StartTime, rbuf, chunks, elapsed, waited>>

\* EERAM47x16_WriteRegister(COMMAND_REGISTER_ADDR, STORE): the address phase
StoreCommandAddress ==
  /\ pc = "store_cmd_addr"
  /\ \E r \in TransportResults :
       /\ MayAnswer(r)
       /\ lastPkt' = EERAM47x16_RegAddressPacket(AddrA2A1A0, EERAM47x16_COMMAND_REGISTER_ADDR)
       /\ ncalls' = ncalls + 1
       /\ nfault' = nfault + Faults(r)
       /\ Error' = WriteRegisterError(AddressPhaseError(r))
       /\ IF r = ERR_OK
            THEN pc' = "store_cmd_data" /\ UNCHANGED result
            ELSE pc' = "ret" /\ result' = Error'
  /\ UNCHANGED <<handleVars, argVars, clock, mem, devPtr, op, address, size, cursor,
                 PageRemData, StartTime, rbuf, chunks, elapsed, waited>>

\* the data phase of the command write, then the start of the wait
StoreCommandData ==
  /\ pc = "store_cmd_data"
  /\ \E r \in TransportResults :
       /\ MayAnswer(r)
       /\ lastPkt' = EERAM47x16_RegDataPacket(AddrA2A1A0, EERAM47x16_STORE_COMMAND)
       /\ ncalls' = ncalls + 1
       /\ nfault' = nfault + Faults(r)
       /\ Error' = WriteRegisterError(r)
       /\ IF Error' # ERR_OK
            THEN pc' = "ret" /\ result' = Error' /\ UNCHANGED StartTime
            ELSE IF flags[2]
            THEN /\ StartTime' = DeadlineOf(clock, EERAM47x16_STORE_TIMEOUT + 1)
                 /\ pc' = "store_poll"
                 /\ UNCHANGED result
            ELSE pc' = "ret" /\ result' = Error' /\ UNCHANGED StartTime
  /\ UNCHANGED <<handleVars, argVars, clock, mem, devPtr, op, address, size, cursor,
                 PageRemData, rbuf, chunks, elapsed, waited>>

\* one status read of the wait loop; after a NACK the status byte keeps its value
StorePoll ==
  /\ pc = "store_poll"
  /\ \E r \in TransportResults, status \in StatusBytes :
       /\ MayShow(r, status)
       /\ lastPkt' = EERAM47x16_ReadRegisterPacket(AddrA2A1A0)
       /\ ncalls' = ncalls + 1
       /\ nfault' = nfault + Busy(r, status)
       /\ Error' = r
       /\ IF r # ERR_OK /\ r # ERR__I2C_NACK
            THEN pc' = "ret" /\ result' = r
            ELSE IF r = ERR_OK /\ BitAnd(status, EERAM47x16_ARRAY_MODIFIED) = 0
            THEN pc' = "ret" /\ result' = r
            ELSE pc' = "store_check" /\ UNCHANGED result
  /\ UNCHANGED <<handleVars, argVars, clock, mem, devPtr, op, address, size, cursor,
                 PageRemData, StartTime, rbuf, chunks, elapsed, waited>>

\* if (fnGetCurrentms() >= Timeout) return ERR__DEVICE_TIMEOUT;
StoreCheck ==
  /\ pc = "store_check"
  /\ \E tick \in TickSet(EERAM47x16_STORE_TIMEOUT) :
       /\ clock' = U32Add(clock, U32(tick))
       /\ waited' = waited + tick
       /\ IF DeadlineReached(clock', StartTime)
            THEN pc' = "ret" /\ result' = ERR__DEVICE_TIMEOUT
            ELSE pc' = "store_poll" /\ UNCHANGED result
  /\ UNCHANGED <<handleVars, argVars, mem, devPtr, op, address, size, cursor, PageRemData,
                 StartTime, Error, rbuf, ncalls, nfault, chunks, lastPkt, elapsed>>

Next ==
  \/ \E a \in AddrSet(conf), n \in SizeSet(conf), seed \in DataSeeds :
       EEPROM_WriteData_Call(a, n, seed)
  \/ \E a \in AddrSet(conf), n \in SizeSet(conf) : EEPROM_ReadData_Call(a, n)
  \/ PageLoop
  \/ PageAddressPhase
  \/ WritePageData
  \/ ReadPageData
  \/ PageReturn
  \/ EEPROM_WaitEndOfWrite_Call
  \/ WaitPoll
  \/ WaitCheck
  \/ AT24MAC402_WaitEndOfWrite_Call
  \/ AT24MAC402_WaitPoll
  \/ AT24MAC402_WaitCheck
  \/ \E forceStore \in BOOLEAN, waitEndOfStore \in BOOLEAN :
       EERAM47x16_StoreSRAMtoEEPROM_Call(forceStore, waitEndOfStore)
  \/ StoreReadStatus
  \/ StoreCommandAddress
  \/ StoreCommandData
  \/ StorePoll
  \/ StoreCheck

Spec == Init /\ [][Next]_vars

(***************************************************************************)
(* The address codec on its own: one address phase per behaviour, on an    *)
(* acknowledging device, for a wide set of addresses                       *)
(***************************************************************************)
CodecAddrs(c) ==
  LET top == c.TotalByteSize - 1
      dense == 0..Min(CodecDense, top)
      edges == UNION {{k * CodecStride - 1, k * CodecStride, k * CodecStride + 255} :
                        k \in 1..(top \div CodecStride)}
  IN  dense \cup {a \in edges : a <= top} \cup {top - 1, top}

\* __EEPROM_WriteAddress(pComp, a, ...) answered with ERR_NONE
WriteAddress_Codec(a) ==
  /\ pc = "idle"
  /\ op' = "WriteAddress"
  /\ pc' = "codec"
  /\ address' = a
  /\ lastPkt' = AddressPacket(conf, AddrA2A1A0, a)
  /\ ncalls' = ncalls + 1
  /\ Error' = AddressPhaseError(ERR_NONE)
  /\ devPtr' = DecodeAddress(conf, lastPkt'.ChipAddr, lastPkt'.Buffer)
  /\ UNCHANGED <<handleVars, argVars, clock, mem, size, cursor, PageRemData, StartTime,
                 result, rbuf, nfault, chunks, elapsed, waited>>

NextCodec == \E a \in CodecAddrs(conf) : WriteAddress_Codec(a)

SpecCodec == Init /\ [][NextCodec]_vars

(***************************************************************************)
(* AT24MAC402_WriteEEPROMData, the build without USE_EEPROM_GENERICNESS    *)
(* (AT24MAC402.c; AT24MAC602.c has the same text)                          *)
(***************************************************************************)
AT24MAC402_ADDRESS_SIZE_MAX == 16
AT24MAC402_PAGE_SIZE == 16
AT24MAC402_PAGE_SIZE_MASK == AT24MAC402_PAGE_SIZE - 1
AT24MAC402_EEPROM_SIZE == AT24MAC402_ADDRESS_SIZE_MAX * AT24MAC402_PAGE_SIZE

\* const uint8_t ChipAddr = AT24MAC402_EEPROM_CHIPADDRESS_BASE | AddrA2A1A0
AT24MAC402_ChipAddr(strap) == BitOr(AT24MAC402_EEPROM_CHIPADDRESS_BASE, strap)

\* RegPacketDesc of __AT24MAC402_WritePage: the one address byte
AT24MAC402_AddressPacket(strap, a) ==
  [kind |-> "addr", ChipAddr |-> BitAnd(AT24MAC402_ChipAddr(strap), I2C_WRITE_ANDMASK),
   Start |-> TRUE, Buffer |-> <<a % 256>>, BufferSize |-> 1, Stop |-> FALSE]

\* DataPacketDesc of __AT24MAC402_WritePage
AT24MAC402_DataPacket(strap, bytes) ==
  [kind |-> "wdata", ChipAddr |-> BitAnd(AT24MAC402_ChipAddr(strap), I2C_WRITE_ANDMASK),
   Start |-> FALSE, Buffer |-> bytes, BufferSize |-> Len(bytes), Stop |-> TRUE]

\* PageRemData of AT24MAC402_WriteEEPROMData
AT24MAC402_PageRem(a, n) ==
  LET rem == AT24MAC402_PAGE_SIZE - BitAnd(a, AT24MAC402_PAGE_SIZE_MASK)
  IN IF n < rem THEN n ELSE rem

\* the bytes the call hands to __AT24MAC402_WritePage for a chunk: the argument
\* passed is data, the start of the caller's buffer, whatever pData has reached
AT24MAC402_PageBytes(bytes, done, n) == SubSeq(bytes, 1, n)

\* the uint8_t addresses the call is given
AT24MAC402_AddrSet ==
  {0, AT24MAC402_PAGE_SIZE - 1, AT24MAC402_EEPROM_SIZE - AT24MAC402_PAGE_SIZE,
   AT24MAC402_EEPROM_SIZE - 2, AT24MAC402_EEPROM_SIZE - 1}

AT24MAC402_SizeSet == (0..MaxSize) \cup {AT24MAC402_PAGE_SIZE + 2}

InitMac == Init /\ IsAT24MAC402

AT24MAC402_WriteEEPROMData_Call(a, n, seed) ==
  /\ CanCall
  /\ calls = 0
  /\ Enter("AT24MAC402_WriteEEPROMData", a, n)
  /\ wdata' = Pattern(seed, n)
  /\ rbuf' = << >>
  /\ IF a + n > AT24MAC402_EEPROM_SIZE
       THEN pc' = "ret" /\ result' = ERR__OUT_OF_MEMORY
       ELSE pc' = "loop" /\ result' = "none"
  /\ UNCHANGED <<handleVars, clock, mem, devPtr, StartTime, flags, nfault>>

\* while (size > 0): PageRemData and StartTime
AT24MAC402_PageLoop ==
  /\ pc = "loop"
  /\ op = "AT24MAC402_WriteEEPROMData"
  /\ IF size > 0
       THEN /\ PageRemData' = AT24MAC402_PageRem(address, size)
            /\ StartTime' = clock
            /\ waited' = 0
            /\ pc' = "page_addr"
            /\ UNCHANGED <<clock, result>>
       ELSE /\ pc' = "ret"
            /\ result' = ERR_NONE
            /\ UNCHANGED <<PageRemData, clock, StartTime, waited>>
  /\ UNCHANGED <<handleVars, argVars, mem, devPtr, op, address, size, cursor, Error,
                 rbuf, ncalls, nfault, chunks, lastPkt, elapsed>>

\* __AT24MAC402_WritePage: the address byte
AT24MAC402_PageAddressPhase ==
  /\ pc = "page_addr"
  /\ op = "AT24MAC402_WriteEEPROMData"
  /\ \E r \in TransportResults :
       /\ MayAnswer(r)
       /\ lastPkt' = AT24MAC402_AddressPacket(AddrA2A1A0, address)
       /\ ncalls' = ncalls + 1
       /\ nfault' = nfault + Faults(r)
       /\ Error' = AddressPhaseError(r)
       /\ devPtr' = IF r = ERR_NONE
                      THEN DecodeAddress(conf, lastPkt'.ChipAddr, lastPkt'.Buffer)
                      ELSE devPtr
       /\ pc' = IF r = ERR_NONE THEN "page_data" ELSE "page_ret"
  /\ UNCHANGED <<handleVars, argVars, clock, mem, op, address, size, cursor, PageRemData,
                 StartTime, result, rbuf, chunks, elapsed, waited>>

\* __AT24MAC402_WritePage: the data
AT24MAC402_PageData ==
  /\ pc = "page_data"
  /\ op = "AT24MAC402_WriteEEPROMData"
  /\ \E r \in TransportResults :
       /\ MayAnswer(r)
       /\ lastPkt' = AT24MAC402_DataPacket(AddrA2A1A0,
                                           AT24MAC402_PageBytes(wdata, cursor, PageRemData))
       /\ ncalls' = ncalls + 1
       /\ nfault' = nfault + Faults(r)
       /\ Error' = r
       /\ mem' = IF r = ERR_NONE THEN MockWrite(conf, mem, devPtr, lastPkt'.Buffer) ELSE mem
  /\ pc' = "page_ret"
  /\ UNCHANGED <<handleVars, argVars, clock, devPtr, op, address, size, cursor, PageRemData,
                 StartTime, result, rbuf, chunks, elapsed, waited>>

\* AT24MAC402_TIME_DIFF(StartTime, now) > 6
AT24MAC402_TimeoutElapsed(start, now) ==
  U32Gt(EEPROM_TIME_DIFF(start, now), U32(AT24MAC402_WaitTime))

\* after __AT24MAC402_WritePage: advance address, pData and size, return, or retry
AT24MAC402_PageReturn ==
  /\ pc = "page_ret"
  /\ op = "AT24MAC402_WriteEEPROMData"
  /\ IF Error = ERR_NONE
       THEN /\ address' = (address + PageRemData) % 256
            /\ cursor' = cursor + PageRemData
            /\ size' = size - PageRemData
            /\ chunks' = Append(chunks, <<address, PageRemData, Error>>)
            /\ pc' = "loop"
            /\ UNCHANGED <<clock, result, elapsed, waited>>
       ELSE IF Error # ERR__NOT_READY
       THEN /\ pc' = "ret"
            /\ result' = Error
            /\ UNCHANGED <<clock, address, cursor, size, chunks, elapsed, waited>>
       ELSE \E tick \in TickSet(AT24MAC402_WaitTime - 1) :
              /\ clock' = U32Add(clock, U32(tick))
              /\ waited' = waited + tick
              /\ elapsed' = EEPROM_TIME_DIFF(StartTime, clock')
              /\ IF AT24MAC402_TimeoutElapsed(StartTime, clock')
                   THEN pc' = "ret" /\ result' = ERR__DEVICE_TIMEOUT
                   ELSE pc' = "page_addr" /\ UNCHANGED result
              /\ UNCHANGED <<address, cursor, size, chunks>>
  /\ UNCHANGED <<handleVars, argVars, mem, devPtr, op, PageRemData, StartTime, Error,
                 rbuf, ncalls, nfault, lastPkt>>

NextMac ==
  \/ \E a \in AT24MAC402_AddrSet, n \in AT24MAC402_SizeSet, seed \in DataSeeds :
       AT24MAC402_WriteEEPROMData_Call(a, n, seed)
  \/ AT24MAC402_PageLoop
  \/ AT24MAC402_PageAddressPhase
  \/ AT24MAC402_PageData
  \/ AT24MAC402_PageReturn

SpecMac == InitMac /\ [][NextMac]_vars

(***************************************************************************)
(* EERAM47x04_ReadSRAMDataWithDMA and EERAM47x04_WriteSRAMDataWithDMA      *)
(* (47x04.c)                                                               *)
(***************************************************************************)
\* calls made on one handle in a behaviour of the DMA model
MaxDmaCalls == 2

ERR__I2C_BUSY == "ERR__I2C_BUSY"

EERAM47x04_SRAM_CHIPADDRESS_BASE == 160
EERAM47x04_REG_CHIPADDRESS_BASE == 48
EERAM47x04_CHIPADDRESS_BASE_MASK == 240
EERAM47x04_CHIPADDRESS_MASK == 252
EERAM47x04_EERAM_SIZE == 512
EERAM47x04_DMA_TRANSFER_IN_PROGRESS == 1
EERAM47x04_TRANSACTION_NUMBER_Pos == 1
EERAM47x04_TRANSACTION_NUMBER_Mask == 63 * Pow2(EERAM47x04_TRANSACTION_NUMBER_Pos)
I2C_TRANSACTION_NUMBER_Mask == 63

IsEERAM47x04 == conf \in {EERAM47L04_Conf, EERAM47C04_Conf}

EERAM47x04_IS_DMA_TRANSFER_IN_PROGRESS(value) ==
  BitAnd(value, EERAM47x04_DMA_TRANSFER_IN_PROGRESS) > 0

\* value &= EERAM47x04_NO_DMA_TRANSFER_IN_PROGRESS_SET, on the uint8_t InternalConfig
EERAM47x04_NoTransferInProgress(value) ==
  BitAnd(value, BitNot8(EERAM47x04_DMA_TRANSFER_IN_PROGRESS))

\* faulty variant: the transaction number is masked without being shifted into place
EERAM47x04_TRANSACTION_NUMBER_SET_Unshifted(value) ==
  BitAnd(value, EERAM47x04_TRANSACTION_NUMBER_Mask)

EERAM47x04_TRANSACTION_NUMBER_SET(value) ==
  BitAnd(value * Pow2(EERAM47x04_TRANSACTION_NUMBER_Pos), EERAM47x04_TRANSACTION_NUMBER_Mask)

EERAM47x04_TRANSACTION_NUMBER_GET(value) ==
  Shr(BitAnd(value, EERAM47x04_TRANSACTION_NUMBER_Mask), EERAM47x04_TRANSACTION_NUMBER_Pos)

EERAM47x04_TRANSACTION_NUMBER_CLEAR(value) ==
  BitAnd(value, BitNot8(EERAM47x04_TRANSACTION_NUMBER_Mask))

\* (address + (uint16_t)size) > EERAM47x04_EERAM_SIZE
EERAM47x04_OutOfMemory(a, n) == a + (n % W16) > EERAM47x04_EERAM_SIZE

\* ChipAddr of the SRAM accesses
EERAM47x04_SramChipAddr(strap) ==
  BitAnd(BitOr(EERAM47x04_SRAM_CHIPADDRESS_BASE, strap), EERAM47x04_CHIPADDRESS_MASK)

\* AddrBytes of __EERAM47x04_WriteAddress
EERAM47x04_AddrBytes(chipAddr) ==
  IF BitAnd(chipAddr, EERAM47x04_CHIPADDRESS_BASE_MASK) = EERAM47x04_SRAM_CHIPADDRESS_BASE
    THEN 2 ELSE 1

\* PacketDesc of __EERAM47x04_WriteAddress: &Address[2 - AddrBytes], AddrBytes
EERAM47x04_AddressPacket(chipAddr, a) ==
  [kind |-> "addr", ChipAddr |-> BitAnd(chipAddr, I2C_WRITE_ANDMASK), Start |-> TRUE,
   Buffer |-> SubSeq(<<BitAnd(Shr(a, 8), 255), BitAnd(a, 255)>>,
                     3 - EERAM47x04_AddrBytes(chipAddr), 2),
   BufferSize |-> EERAM47x04_AddrBytes(chipAddr), Stop |-> FALSE]

\* I2C_INTERFACE8_CHECK_DMA_DESC(ChipAddr, CurrTransactionNumber)
EERAM47x04_CheckPacket(chipAddr, number) ==
  [kind |-> "check", ChipAddr |-> BitOr(chipAddr, I2C_READ_ORMASK), Start |-> TRUE,
   Buffer |-> << >>, BufferSize |-> 0, Stop |-> TRUE,
   Number |-> BitAnd(number, I2C_TRANSACTION_NUMBER_Mask)]

\* the blocking bit of a packet's Config.Value
I2C_USE_NON_BLOCKING == 8
I2C_BLOCKING == 0
I2C_IS_NON_BLOCKING(config) == BitAnd(config, I2C_USE_NON_BLOCKING) > 0

\* PacketDescData of the two WithDMA functions: I2C_INTERFACE8_RX_DATA_DESC /
\* I2C_INTERFACE8_TX_DATA_DESC(ChipAddr, true, data, size, true, ...), of which
\* Config.Value is I2C_BLOCKING | ...
EERAM47x04_DmaDataPacket(dir, chipAddr, n) ==
  [kind |-> IF dir = "read" THEN "rdata" ELSE "wdata",
   ChipAddr |-> IF dir = "read" THEN BitOr(chipAddr, I2C_READ_ORMASK)
                ELSE BitAnd(chipAddr, I2C_WRITE_ANDMASK),
   Config |-> I2C_BLOCKING,
   Start |-> TRUE, Buffer |-> << >>, BufferSize |-> n, Stop |-> TRUE]

\* the transaction numbers the transport hands out
DmaNumbers == {1, 63}

\* the requests made of the DMA functions
DmaAddrSet == {0, EERAM47x04_EERAM_SIZE - 1}
DmaSizeSet == {1, 2}

\* answers of the transport to a status check: the state of the transfer it was
\* handed, or a failure while the fault budget lasts
CheckAnswers ==
  (IF dma.busy THEN {ERR__I2C_BUSY} ELSE {ERR_NONE})
    \cup {r \in {ERR__I2C_OTHER_BUSY, ERR__I2C_NACK} : nfault < MaxFaults}

\* answers of the transport to the data packet of a new transfer: done at once,
\* taken over by the DMA engine, or a failure while the fault budget lasts
StartAnswers ==
  {ERR_NONE, ERR__I2C_BUSY}
    \cup {r \in {ERR__I2C_OTHER_BUSY, ERR__I2C_NACK_DATA} : nfault < MaxFaults}

\* answers of the transport to the address packet, which __EERAM47x04_WriteAddress
\* sends non-blocking from the WithDMA functions: as for any transfer, or taken
\* over by the DMA engine
AddressAnswers == TransportResults \cup {ERR__I2C_BUSY}

\* InternalConfig after the data packet of a new transfer was answered with e and
\* the transport left the transaction number num in the packet
EERAM47x04_ConfigAfterStart(value, e, num) ==
  LET a == IF e # ERR__I2C_OTHER_BUSY THEN EERAM47x04_NoTransferInProgress(value) ELSE value
      b == IF e = ERR__I2C_BUSY THEN BitOr(a, EERAM47x04_DMA_TRANSFER_IN_PROGRESS) ELSE a
  IN  BitOr(EERAM47x04_TRANSACTION_NUMBER_CLEAR(b),
            EERAM47x04_TRANSACTION_NUMBER_SET(BitAnd(num, I2C_TRANSACTION_NUMBER_Mask)))

\* InternalConfig after a status check was answered with e
EERAM47x04_ConfigAfterCheck(value, e) ==
  IF e # ERR__I2C_BUSY /\ e # ERR__I2C_OTHER_BUSY
    THEN EERAM47x04_NoTransferInProgress(value) ELSE value

InitDma == Init /\ IsEERAM47x04

\* the part of a call common to its three outcomes
DmaEnter(name, a, n) ==
  /\ pc \in {"idle", "ret"}
  /\ calls < MaxDmaCalls
  /\ Enter(name, a, n)
  /\ pc' = "ret"
  /\ flags' = <<EERAM47x04_IS_DMA_TRANSFER_IN_PROGRESS(InternalConfig), FALSE>>
  /\ wdata' = << >>
  /\ rbuf' = << >>
  /\ UNCHANGED <<conf, AddrA2A1A0, clock, mem, devPtr, StartTime>>

\* the range check refuses the request
DmaRefused(name, a, n) ==
  /\ DmaEnter(name, a, n)
  /\ EERAM47x04_OutOfMemory(a, n)
  /\ result' = ERR__OUT_OF_MEMORY
  /\ trace' = << >>
  /\ UNCHANGED <<InternalConfig, dma, nfault>>

\* a transfer is in progress: one status check
DmaCheck(name, a, n) ==
  /\ DmaEnter(name, a, n)
  /\ ~EERAM47x04_OutOfMemory(a, n)
  /\ EERAM47x04_IS_DMA_TRANSFER_IN_PROGRESS(InternalConfig)
  /\ \E r \in CheckAnswers :
       /\ trace' = <<EERAM47x04_CheckPacket(EERAM47x04_SramChipAddr(AddrA2A1A0),
                                           EERAM47x04_TRANSACTION_NUMBER_GET(InternalConfig))>>
       /\ nfault' = nfault + (IF r \in {ERR_NONE, ERR__I2C_BUSY} THEN 0 ELSE 1)
       /\ InternalConfig' = EERAM47x04_ConfigAfterCheck(InternalConfig, r)
       /\ result' = r
       /\ dma' = IF r \in {ERR_NONE, ERR__I2C_BUSY, ERR__I2C_OTHER_BUSY} THEN dma
                 ELSE [dma EXCEPT !.busy = FALSE]

\* no transfer in progress: the address, then the data packet
DmaStart(name, dir, a, n) ==
  /\ DmaEnter(name, a, n)
  /\ ~EERAM47x04_OutOfMemory(a, n)
  /\ ~EERAM47x04_IS_DMA_TRANSFER_IN_PROGRESS(InternalConfig)
  /\ \E r1 \in AddressAnswers :
       /\ MayAnswer(r1) \/ r1 = ERR__I2C_BUSY
       /\ IF r1 = ERR__I2C_BUSY
            THEN /\ trace' = <<EERAM47x04_AddressPacket(EERAM47x04_SramChipAddr(AddrA2A1A0), a)>>
                 /\ result' = r1
                 /\ dma' = [busy |-> TRUE, done |-> FALSE, number |-> 0,
                            xfer |-> [dir |-> "addr", addr |-> a, size |-> 0]]
                 /\ UNCHANGED <<InternalConfig, nfault>>
          ELSE IF r1 # ERR_NONE
            THEN /\ trace' = <<EERAM47x04_AddressPacket(EERAM47x04_SramChipAddr(AddrA2A1A0), a)>>
                 /\ nfault' = nfault + 1
                 /\ result' = AddressPhaseError(r1)
                 /\ UNCHANGED <<InternalConfig, dma>>
            ELSE \E r2 \in StartAnswers, num \in DmaNumbers :
                 /\ trace' = <<EERAM47x04_AddressPacket(EERAM47x04_SramChipAddr(AddrA2A1A0), a),
                              EERAM47x04_DmaDataPacket(dir, EERAM47x04_SramChipAddr(AddrA2A1A0), n)>>
                 /\ nfault' = nfault + (IF r2 \in {ERR_NONE, ERR__I2C_BUSY} THEN 0 ELSE 1)
                 /\ result' = r2
                 /\ InternalConfig' = EERAM47x04_ConfigAfterStart(InternalConfig, r2, num)
                 /\ dma' = IF r2 \in {ERR_NONE, ERR__I2C_BUSY}
                             THEN [busy |-> r2 = ERR__I2C_BUSY, done |-> r2 = ERR_NONE,
                                   number |-> num,
                                   xfer |-> [dir |-> dir, addr |-> a, size |-> n]]
                             ELSE dma

EERAM47x04_ReadSRAMDataWithDMA_Call(a, n) ==
  \/ DmaRefused("EERAM47x04_ReadSRAMDataWithDMA", a, n)
  \/ DmaCheck("EERAM47x04_ReadSRAMDataWithDMA", a, n)
  \/ DmaStart("EERAM47x04_ReadSRAMDataWithDMA", "read", a, n)

EERAM47x04_WriteSRAMDataWithDMA_Call(a, n) ==
  \/ DmaRefused("EERAM47x04_WriteSRAMDataWithDMA", a, n)
  \/ DmaCheck("EERAM47x04_WriteSRAMDataWithDMA", a, n)
  \/ DmaStart("EERAM47x04_WriteSRAMDataWithDMA", "write", a, n)

\* the DMA engine finishes the transfer it was handed
DmaComplete ==
  /\ dma.busy
  /\ dma' = [dma EXCEPT !.busy = FALSE, !.done = TRUE]
  /\ UNCHANGED <<conf, AddrA2A1A0, InternalConfig, trace, clock, mem, devPtr, op, pc, address,
                 size, cursor, PageRemData, StartTime, Error, result, wdata, rbuf, reqAddr,
                 reqSize, ncalls, nfault, chunks, lastPkt, elapsed, waited, calls, prev, flags>>

NextDma ==
  \/ \E a \in DmaAddrSet, n \in DmaSizeSet : EERAM47x04_ReadSRAMDataWithDMA_Call(a, n)
  \/ \E a \in DmaAddrSet, n \in DmaSizeSet : EERAM47x04_WriteSRAMDataWithDMA_Call(a, n)
  \/ DmaComplete

SpecDma == InitDma /\ [][NextDma]_vars

(***************************************************************************)
(* EERAM48L512_WriteSecure and EERAM48L512_SetWriteEnable (48L512.c)       *)
(***************************************************************************)
\* pages of the longest secure write, and calls made on one handle
MaxSecurePages == 2
MaxSecureCalls == 3

EERAM48L512_PAGE_SIZE == 64
EERAM48L512_EERAM_SIZE == 65536
EERAM48L512_WRITE_SECURE_FAILED == 16
EERAM48L512_STATUS_WRITE_ENABLE == 128

EERAM48L512_IS_STATUS_WRITE_ENABLE(value) ==
  BitAnd(value, EERAM48L512_STATUS_WRITE_ENABLE) > 0

\* value &= EERAM48L512_STATUS_WRITE_DISABLE_SET, on the uint8_t InternalConfig
EERAM48L512_WriteDisabled(value) ==
  BitAnd(value, BitNot8(EERAM48L512_STATUS_WRITE_ENABLE))

\* answers of fnSPI_Transfer: a failure while the fault budget lasts
SpiAnswers == {r \in {ERR_NONE, "ERR__SPI_CONFIG_ERROR"} : MayAnswer(r)}

\* bits 4 of the status register as the device may show them after a secure write
SecureStatusBytes == {0, EERAM48L512_WRITE_SECURE_FAILED}

\* the requests made of EERAM48L512_WriteSecure
SecureAddrSet == {0, 1, EERAM48L512_EERAM_SIZE - EERAM48L512_PAGE_SIZE}
SecureSizeSet == {k * EERAM48L512_PAGE_SIZE : k \in 0..MaxSecurePages} \cup {1}

\* the refusal of a request by the checks at the head of EERAM48L512_WriteSecure
SecureRefusal(a, n) ==
  IF BitAnd(a, EERAM48L512_PAGE_SIZE - 1) # 0 THEN "ERR__ADDRESS_ALIGNMENT"
  ELSE IF n % EERAM48L512_PAGE_SIZE # 0 THEN "ERR__BAD_DATA_SIZE"
  ELSE IF a + n > EERAM48L512_EERAM_SIZE THEN ERR__OUT_OF_MEMORY
  ELSE ERR_NONE

\* the 48L512 handle has no I2C configuration: that part of the state is held fixed
InitSecure == Init /\ conf = EERAM47L04_Conf /\ AddrA2A1A0 = 0 /\ clock = U32(0)

\* what the secure-write model leaves alone in every step
secureFrame == <<conf, AddrA2A1A0, clock, mem, devPtr, StartTime, wdata, rbuf, dma>>
secureCall == <<op, reqAddr, reqSize, PageRemData, Error, ncalls, chunks, lastPkt,
                elapsed, waited, calls, prev, flags>>

\* EERAM48L512_SetWriteEnable: WriteCommand(WREN) removes the flag, then it is set
EERAM48L512_SetWriteEnable_Call ==
  /\ pc \in {"idle", "ret"}
  /\ calls < MaxSecureCalls
  /\ Enter("EERAM48L512_SetWriteEnable", 0, 0)
  /\ \E r \in SpiAnswers :
       /\ result' = r
       /\ nfault' = nfault + Faults(r)
  /\ InternalConfig' = BitOr(EERAM48L512_WriteDisabled(InternalConfig),
                             EERAM48L512_STATUS_WRITE_ENABLE)
  /\ trace' = <<[kind |-> "WREN", addr |-> 0]>>
  /\ flags' = <<EERAM48L512_IS_STATUS_WRITE_ENABLE(InternalConfig), FALSE>>
  /\ pc' = "ret"
  /\ UNCHANGED secureFrame

\* entry of EERAM48L512_WriteSecure and its checks of alignment, size and range
EERAM48L512_WriteSecure_Call(a, n) ==
  /\ pc \in {"idle", "ret"}
  /\ calls < MaxSecureCalls
  /\ Enter("EERAM48L512_WriteSecure", a, n)
  /\ flags' = <<EERAM48L512_IS_STATUS_WRITE_ENABLE(InternalConfig), FALSE>>
  /\ trace' = << >>
  /\ IF SecureRefusal(a, n) # ERR_NONE
       THEN pc' = "ret" /\ result' = SecureRefusal(a, n)
       ELSE pc' = "secure" /\ result' = "none"
  /\ UNCHANGED <<InternalConfig, nfault>>
  /\ UNCHANGED secureFrame

\* while (size > 0): leave the loop when nothing is left
SecureLoopEnd ==
  /\ pc = "secure"
  /\ size = 0
  /\ pc' = "ret"
  /\ result' = ERR_NONE
  /\ UNCHANGED <<InternalConfig, trace, nfault, address, size, cursor>>
  /\ UNCHANGED secureCall
  /\ UNCHANGED secureFrame

\* __EERAM48L512_WriteData(SWRITE, address, pData, PAGE_SIZE, true): opcode and
\* address, then the page, then the CRC; the write-enable flag is removed
SecureWritePage ==
  /\ pc = "secure"
  /\ size > 0
  /\ trace' = Append(trace, [kind |-> "SWRITE", addr |-> address])
  /\ InternalConfig' = EERAM48L512_WriteDisabled(InternalConfig)
  /\ \E r \in SpiAnswers :
       /\ nfault' = nfault + Faults(r)
       /\ IF r # ERR_NONE
            THEN pc' = "ret" /\ result' = r
            ELSE pc' = "status" /\ result' = "none"
  /\ UNCHANGED <<address, size, cursor>>
  /\ UNCHANGED secureCall
  /\ UNCHANGED secureFrame

\* (RegStatus.Status & EERAM48L512_WRITE_SECURE_FAILED) != 0: the check of the CRC
SecureWriteFailed_Never(st) == FALSE
SecureWriteFailed(st) == BitAnd(st, EERAM48L512_WRITE_SECURE_FAILED) # 0

\* EERAM48L512_GetStatus, the check of the CRC, the advance to the next page and
\* the write enable for it
SecureCheckStatus ==
  /\ pc = "status"
  /\ \E r \in SpiAnswers, st \in SecureStatusBytes :
       LET cleared == EERAM48L512_WriteDisabled(InternalConfig)
           left == size - EERAM48L512_PAGE_SIZE
           again == left > 0 /\ EERAM48L512_IS_STATUS_WRITE_ENABLE(cleared)
       IN  /\ nfault' = nfault + Faults(r)
           /\ IF r # ERR_NONE \/ SecureWriteFailed(st)
                THEN /\ pc' = "ret"
                     /\ result' = IF r # ERR_NONE THEN r ELSE "ERR__CRC_ERROR"
                     /\ InternalConfig' = cleared
                     /\ trace' = Append(trace, [kind |-> "RDSR", addr |-> 0,
                                                Error |-> r, Status |-> st])
                     /\ UNCHANGED <<address, size, cursor>>
                ELSE /\ pc' = "secure"
                     /\ result' = "none"
                     /\ address' = address + EERAM48L512_PAGE_SIZE
                     /\ cursor' = cursor + EERAM48L512_PAGE_SIZE
                     /\ size' = left
                     /\ InternalConfig' =
                          IF again THEN BitOr(cleared, EERAM48L512_STATUS_WRITE_ENABLE)
                          ELSE cleared
                     /\ trace' = Append(trace, [kind |-> "RDSR", addr |-> 0,
                                                Error |-> r, Status |-> st])
                                   \o (IF again THEN <<[kind |-> "WREN", addr |-> 0]>>
                                       ELSE << >>)
  /\ UNCHANGED secureCall
  /\ UNCHANGED secureFrame

NextSecure ==
  \/ EERAM48L512_SetWriteEnable_Call
  \/ \E a \in SecureAddrSet, n \in SecureSizeSet : EERAM48L512_WriteSecure_Call(a, n)
  \/ SecureLoopEnd
  \/ SecureWritePage
  \/ SecureCheckStatus

SpecSecure == InitSecure /\ [][NextSecure]_vars

(***************************************************************************)
(* EERAM47x04_StoreSRAMtoEEPROM (47x04.c)                                  *)
(***************************************************************************)
\* status reads of the longest wait
MaxPolls == 3

EERAM47x04_COMMAND_REGISTER_ADDR == 85
EERAM47x04_STORE_COMMAND == 51
EERAM47x04_ARRAY_MODIFIED == 128
EERAM47x04_STORE_TIMEOUT == 8

\* ChipAddr of the control registers
EERAM47x04_RegChipAddr(strap) ==
  BitAnd(BitOr(EERAM47x04_REG_CHIPADDRESS_BASE, strap), EERAM47x04_CHIPADDRESS_MASK)

\* the transfer of EERAM47x04_ReadRegister, with the byte and the answer it got
EERAM47x04_StatusRead(strap, status, r) ==
  [kind |-> "rdata", ChipAddr |-> BitOr(EERAM47x04_RegChipAddr(strap), I2C_READ_ORMASK),
   Buffer |-> <<status>>, Error |-> r]

\* faulty variant: gives up as soon as STORE_TIMEOUT + 1 ms are reached
EERAM47x04_StoreTimeout_AtBound(start, now) ==
  U32Ge(EEPROM_TIME_DIFF(start, now), U32(EERAM47x04_STORE_TIMEOUT + 1))

\* EERAM47x04_TIME_DIFF(StartTime, now) > EERAM47x04_STORE_TIMEOUT + 1
EERAM47x04_StoreTimeout(start, now) ==
  U32Gt(EEPROM_TIME_DIFF(start, now), U32(EERAM47x04_STORE_TIMEOUT + 1))

InitStore == Init /\ IsEERAM47x04

storeFrame == <<conf, AddrA2A1A0, InternalConfig, dma, mem, devPtr, wdata, reqAddr, reqSize,
                calls, prev, flags, op, address, size, cursor, PageRemData, chunks, lastPkt>>

EERAM47x04_StoreSRAMtoEEPROM_Call(forceStore, waitEndOfStore) ==
  /\ CanCall
  /\ Enter("EERAM47x04_StoreSRAMtoEEPROM", 0, 0)
  /\ flags' = <<forceStore, waitEndOfStore>>
  /\ pc' = IF forceStore THEN "store_cmd" ELSE "store_status"
  /\ result' = "none"
  /\ wdata' = << >>
  /\ rbuf' = << >>
  /\ trace' = << >>
  /\ UNCHANGED <<conf, AddrA2A1A0, InternalConfig, dma, clock, mem, devPtr, StartTime, nfault>>

\* Store = ((Reg.Status & EERAM47x04_ARRAY_MODIFIED) > 0)
EERAM47x04_StoreNeeded_Always(status) == TRUE
EERAM47x04_StoreNeeded(status) == BitAnd(status, EERAM47x04_ARRAY_MODIFIED) > 0

\* forceStore == false: read the status register, store only a modified array
EERAM47x04_StoreReadStatus ==
  /\ pc = "store_status"
  /\ op = "EERAM47x04_StoreSRAMtoEEPROM"
  /\ \E r \in TransportResults, status \in StatusBytes :
       /\ MayAnswer(r)
       /\ trace' = Append(trace, EERAM47x04_StatusRead(AddrA2A1A0, status, r))
       /\ ncalls' = ncalls + 1
       /\ nfault' = nfault + Faults(r)
       /\ Error' = r
       /\ rbuf' = IF r = ERR_NONE THEN <<status>> ELSE rbuf
       /\ IF r # ERR_NONE
            THEN pc' = "ret" /\ result' = r
            ELSE IF EERAM47x04_StoreNeeded(status)
            THEN pc' = "store_cmd" /\ UNCHANGED result
            ELSE pc' = "ret" /\ result' = r
  /\ UNCHANGED <<clock, StartTime, elapsed, waited>>
  /\ UNCHANGED storeFrame

\* EERAM47x04_WriteRegister(COMMAND_REGISTER_ADDR, STORE), then the start of the wait
EERAM47x04_StoreCommand ==
  /\ pc = "store_cmd"
  /\ op = "EERAM47x04_StoreSRAMtoEEPROM"
  /\ \E r1 \in TransportResults, r2 \in TransportResults :
       LET chip == EERAM47x04_RegChipAddr(AddrA2A1A0)
           a == EERAM47x04_AddressPacket(chip, EERAM47x04_COMMAND_REGISTER_ADDR)
           d == [kind |-> "wdata", ChipAddr |-> BitAnd(chip, I2C_WRITE_ANDMASK),
                 Buffer |-> <<EERAM47x04_STORE_COMMAND>>, Error |-> r2]
           e == IF r1 # ERR_NONE THEN WriteRegisterError(AddressPhaseError(r1))
                ELSE WriteRegisterError(r2)
       IN  /\ MayAnswer(r1)
           /\ r1 # ERR_NONE => r2 = ERR_NONE
           /\ r1 = ERR_NONE => MayAnswer(r2)
           /\ trace' = trace \o (IF r1 = ERR_NONE THEN <<a, d>> ELSE <<a>>)
           /\ ncalls' = ncalls + (IF r1 = ERR_NONE THEN 2 ELSE 1)
           /\ nfault' = nfault + Faults(r1) + Faults(r2)
           /\ Error' = e
           /\ IF e # ERR_NONE
                THEN pc' = "ret" /\ result' = e /\ UNCHANGED <<StartTime, rbuf>>
                ELSE IF flags[2]
                THEN /\ rbuf' = <<EERAM47x04_ARRAY_MODIFIED>>
                     /\ StartTime' = clock
                     /\ pc' = "store_poll"
                     /\ UNCHANGED result
                ELSE pc' = "ret" /\ result' = e /\ UNCHANGED <<StartTime, rbuf>>
  /\ UNCHANGED <<clock, elapsed, waited>>
  /\ UNCHANGED storeFrame

\* one status read of the wait loop; after a NACK Reg.Status keeps its value
EERAM47x04_StorePoll ==
  /\ pc = "store_poll"
  /\ op = "EERAM47x04_StoreSRAMtoEEPROM"
  /\ ncalls < MaxPolls + 2
  /\ \E r \in TransportResults, status \in StatusBytes :
       /\ MayAnswer(r)
       /\ trace' = Append(trace, EERAM47x04_StatusRead(AddrA2A1A0, status, r))
       /\ ncalls' = ncalls + 1
       /\ nfault' = nfault + Faults(r)
       /\ Error' = r
       /\ rbuf' = IF r = ERR_NONE THEN <<status>> ELSE rbuf
       /\ IF r # ERR_NONE /\ r # ERR__I2C_NACK
            THEN pc' = "ret" /\ result' = r
            ELSE IF BitAnd(rbuf'[1], EERAM47x04_ARRAY_MODIFIED) = 0
            THEN pc' = "ret" /\ result' = r
            ELSE pc' = "store_check" /\ UNCHANGED result
  /\ UNCHANGED <<clock, StartTime, elapsed, waited>>
  /\ UNCHANGED storeFrame

\* the timeout decision of the wait loop
EERAM47x04_StoreCheck ==
  /\ pc = "store_check"
  /\ op = "EERAM47x04_StoreSRAMtoEEPROM"
  /\ \E tick \in TickSet(EERAM47x04_STORE_TIMEOUT) :
       /\ clock' = U32Add(clock, U32(tick))
       /\ waited' = waited + tick
       /\ elapsed' = EEPROM_TIME_DIFF(StartTime, clock')
       /\ IF EERAM47x04_StoreTimeout(StartTime, clock')
            THEN pc' = "ret" /\ result' = ERR__DEVICE_TIMEOUT
            ELSE pc' = "store_poll" /\ UNCHANGED result
  /\ UNCHANGED <<StartTime, Error, rbuf, ncalls, nfault, trace>>
  /\ UNCHANGED storeFrame

NextStore ==
  \/ \E f \in BOOLEAN, w \in BOOLEAN : EERAM47x04_StoreSRAMtoEEPROM_Call(f, w)
  \/ EERAM47x04_StoreReadStatus
  \/ EERAM47x04_StoreCommand
  \/ EERAM47x04_StorePoll
  \/ EERAM47x04_StoreCheck

SpecStore == InitStore /\ [][NextStore]_vars

(***************************************************************************)
(* SRAM read and write of the EERAM47x04 and the EERAM47x16                *)
(* (47x04.c, 47x16.c)                                                      *)
(***************************************************************************)
\* calls made on one handle in a behaviour of the SRAM model
MaxSramCalls == 2

EERAM47x16_EERAM_SIZE == 2048

\* size of the SRAM array behind the handle
SramSize == IF IsEERAM47x04 THEN EERAM47x04_EERAM_SIZE ELSE EERAM47x16_EERAM_SIZE

\* if (size > EERAM47x16_EERAM_SIZE) return ERR__OUT_OF_MEMORY;
EERAM47x16_OutOfMemory(a, n) == n > EERAM47x16_EERAM_SIZE

\* the uint16_t addresses and size_t sizes asked for: around the end of the array
\* and around the 16-bit limit
SramAddrSet == {0, 1, SramSize - 1, SramSize, W16 - 1}
SramSizeSet == {0, 1, 2, SramSize, SramSize + 1, W16 - 1, W16, W16 + 1}

InitSram == Init /\ (IsEERAM47x04 \/ IsEERAM47x16)

\* a read (EERAM47x04_ReadSRAMData, EERAM47x16_ReadSRAMData) or a write
\* (__EERAM47x04_WriteData, __EERAM47x16_WriteData) of n bytes at a: the range
\* check, the address, then the data
SRAMData_Call(name, dir, refused, a, n) ==
  /\ pc \in {"idle", "ret"}
  /\ calls < MaxSramCalls
  /\ Enter(name, a, n)
  /\ pc' = "ret"
  /\ flags' = <<refused, FALSE>>
  /\ wdata' = << >>
  /\ rbuf' = << >>
  /\ IF refused
       THEN /\ result' = ERR__OUT_OF_MEMORY
            /\ trace' = << >>
            /\ UNCHANGED nfault
       ELSE \E r1 \in TransportResults, r2 \in TransportResults :
            /\ MayAnswer(r1)
            /\ r1 # ERR_NONE => r2 = ERR_NONE
            /\ r1 = ERR_NONE => MayAnswer(r2)
            /\ nfault' = nfault + Faults(r1) + Faults(r2)
            /\ result' = IF r1 # ERR_NONE THEN AddressPhaseError(r1) ELSE r2
            /\ trace' = <<[kind |-> "addr", BufferSize |-> 2]>>
                          \o (IF r1 = ERR_NONE THEN <<[kind |-> dir, BufferSize |-> n]>>
                              ELSE << >>)
  /\ UNCHANGED <<conf, AddrA2A1A0, InternalConfig, dma, clock, mem, devPtr, StartTime>>

EERAM47x04_ReadSRAMData_Call(a, n) ==
  /\ IsEERAM47x04
  /\ SRAMData_Call("EERAM47x04_ReadSRAMData", "rdata", EERAM47x04_OutOfMemory(a, n), a, n)

EERAM47x04_WriteSRAMData_Call(a, n) ==
  /\ IsEERAM47x04
  /\ SRAMData_Call("EERAM47x04_WriteSRAMData", "wdata", EERAM47x04_OutOfMemory(a, n), a, n)

EERAM47x16_ReadSRAMData_Call(a, n) ==
  /\ IsEERAM47x16
  /\ SRAMData_Call("EERAM47x16_ReadSRAMData", "rdata", EERAM47x16_OutOfMemory(a, n), a, n)

EERAM47x16_WriteSRAMData_Call(a, n) ==
  /\ IsEERAM47x16
  /\ SRAMData_Call("EERAM47x16_WriteSRAMData", "wdata", EERAM47x16_OutOfMemory(a, n), a, n)

NextSram ==
  \/ \E a \in SramAddrSet, n \in SramSizeSet : EERAM47x04_ReadSRAMData_Call(a, n)
  \/ \E a \in SramAddrSet, n \in SramSizeSet : EERAM47x04_WriteSRAMData_Call(a, n)
  \/ \E a \in SramAddrSet, n \in SramSizeSet : EERAM47x16_ReadSRAMData_Call(a, n)
  \/ \E a \in SramAddrSet, n \in SramSizeSet : EERAM47x16_WriteSRAMData_Call(a, n)

SpecSram == InitSram /\ [][NextSram]_vars

(***************************************************************************)
(* Init_EEPROM (EEPROM.c), Init_EERAM47x04 (47x04.c), Init_SRAM23LCxxx and  *)
(* SRAM23LCxxx_SetIOmode (23LCxxx.c)                                       *)
(***************************************************************************)
\* initialisations made on one handle in a behaviour
MaxInitCalls == 2

EERAM47x04_I2CCLOCK_MAX == 1000000
SRAM23LCxxx_SPI == 1
SRAM23LCxxx_SDI == 2
SRAM23LCxxx_SQI == 4
SRAM23LCxxx_MaxSPIclockSpeed == 20000000
SRAM23LCxxx_IO_MODE_Pos == 3

\* .ModeSet of the SRAM23LCxxx_Conf table: SPI only, SPI and SDI, all three
SRAM23LCxxx_ModeSets ==
  {SRAM23LCxxx_SPI, SRAM23LCxxx_SPI + SRAM23LCxxx_SDI,
   SRAM23LCxxx_SPI + SRAM23LCxxx_SDI + SRAM23LCxxx_SQI}

\* the configured clock speeds tried against a maximum
ClockSpeeds(max) == {max, max + 1}

\* one call of the transport: its initialisation or a transfer
TransportCall(kind, what) == [kind |-> kind, what |-> what]

\* Init_SRAM23LCxxx, "Recover I/O access mode": the transport calls it makes
SRAM23LCxxx_Recover(recover, modeSet) ==
  IF ~recover THEN << >>
  ELSE (IF BitAnd(modeSet, SRAM23LCxxx_SDI) > 0
          THEN <<TransportCall("init", "DUAL_SPI_MODE0"), TransportCall("transfer", "RSTIO")>>
          ELSE << >>)
       \o (IF BitAnd(modeSet, SRAM23LCxxx_SQI) > 0
             THEN <<TransportCall("init", "QUAD_SPI_MODE0"), TransportCall("transfer", "RSTIO")>>
             ELSE << >>)
       \o <<TransportCall("init", "SPI_MODE0")>>

\* SRAM23LCxxx_SetIOmode, "Check SPI configuration"
SRAM23LCxxx_CheckConfiguration(speed, modeSet, mode) ==
  IF speed > SRAM23LCxxx_MaxSPIclockSpeed THEN "ERR__SPI_FREQUENCY_ERROR"
  ELSE IF mode = SRAM23LCxxx_SDI /\ BitAnd(modeSet, SRAM23LCxxx_SDI) = 0
    THEN "ERR__SPI_CONFIG_ERROR"
  ELSE IF mode = SRAM23LCxxx_SQI /\ BitAnd(modeSet, SRAM23LCxxx_SQI) = 0
    THEN "ERR__SPI_CONFIG_ERROR"
  ELSE ERR_NONE

\* the transport calls of SRAM23LCxxx_SetIOmode after its checks, entered from
\* Init_SRAM23LCxxx with the interface in SPI mode, and of SRAM23LCxxx_SetOperationMode
SRAM23LCxxx_Configure(mode) ==
  (IF mode = SRAM23LCxxx_SDI THEN <<TransportCall("transfer", "EDIO")>>
   ELSE IF mode = SRAM23LCxxx_SQI THEN <<TransportCall("transfer", "EQIO")>>
   ELSE << >>)
  \o <<TransportCall("init", IF mode = SRAM23LCxxx_SDI THEN "DUAL_SPI_MODE0"
                             ELSE IF mode = SRAM23LCxxx_SQI THEN "QUAD_SPI_MODE0"
                             ELSE "SPI_MODE0"),
       TransportCall("transfer", "WRSR")>>

\* the transport calls of Init_EEPROM and of Init_EERAM47x04 after the check of
\* the clock speed: fnI2C_Init, then the probe of the device
I2C_Configure == <<TransportCall("init", "I2C"), TransportCall("transfer", "IsReady")>>

\* the calls come to an end at the failing one, if any fails
failedAt(plan) == {0} \cup {k \in 1..Len(plan) : nfault < MaxFaults}

\* a whole initialisation: the calls made before the check, the check, the calls
\* made after it; the k-th call of before \o after fails when k > 0
Init_Call(name, flag, before, check, after, fault, config) ==
  /\ pc \in {"idle", "ret"}
  /\ calls < MaxInitCalls
  /\ Enter(name, 0, 0)
  /\ pc' = "ret"
  /\ flags' = flag
  /\ wdata' = << >>
  /\ rbuf' = << >>
  /\ \E k \in failedAt(before \o after) :
       /\ nfault' = nfault + (IF k > 0 /\ (k <= Len(before) \/ check = ERR_NONE) THEN 1 ELSE 0)
       /\ IF k > 0 /\ k <= Len(before)
            THEN /\ trace' = SubSeq(before, 1, k)
                 /\ result' = fault
                 /\ InternalConfig' = config[1]
            ELSE IF check # ERR_NONE
            THEN /\ k = 0
                 /\ trace' = before
                 /\ result' = check
                 /\ InternalConfig' = config[1]
            ELSE IF k > 0
            THEN /\ trace' = SubSeq(before \o after, 1, k)
                 /\ result' = IF after[k - Len(before)].what = "IsReady"
                                THEN "ERR__NO_DEVICE_DETECTED" ELSE fault
                 /\ InternalConfig' = IF after[k - Len(before)].what = "IsReady"
                                        THEN config[2] ELSE config[1]
            ELSE /\ trace' = before \o after
                 /\ result' = ERR_NONE
                 /\ InternalConfig' = config[2]
  /\ UNCHANGED <<conf, AddrA2A1A0, dma, clock, mem, devPtr, StartTime>>

Init_EEPROM_Call(speed) ==
  Init_Call("Init_EEPROM", <<speed > conf.MaxI2CclockSpeed, FALSE>>, << >>,
            IF speed > conf.MaxI2CclockSpeed THEN "ERR__I2C_FREQUENCY_ERROR" ELSE ERR_NONE,
            I2C_Configure, ERR__I2C_OTHER_BUSY, <<InternalConfig, InternalConfig>>)

Init_EERAM47x04_Call(speed) ==
  /\ IsEERAM47x04
  /\ Init_Call("Init_EERAM47x04", <<speed > EERAM47x04_I2CCLOCK_MAX, FALSE>>, << >>,
               IF speed > EERAM47x04_I2CCLOCK_MAX THEN "ERR__I2C_FREQUENCY_ERROR"
               ELSE ERR_NONE,
               I2C_Configure, ERR__I2C_OTHER_BUSY, <<InternalConfig, 0>>)

\* InternalConfig carries the I/O mode of the SRAM23LCxxx handle
Init_SRAM23LCxxx_Call(speed, recover, modeSet, mode) ==
  Init_Call("Init_SRAM23LCxxx", <<speed > SRAM23LCxxx_MaxSPIclockSpeed, recover>>,
            SRAM23LCxxx_Recover(recover, modeSet),
            SRAM23LCxxx_CheckConfiguration(speed, modeSet, mode),
            SRAM23LCxxx_Configure(mode), "ERR__SPI_CONFIG_ERROR",
            <<SRAM23LCxxx_SPI * Pow2(SRAM23LCxxx_IO_MODE_Pos),
              mode * Pow2(SRAM23LCxxx_IO_MODE_Pos)>>)

NextInit ==
  \/ \E speed \in ClockSpeeds(conf.MaxI2CclockSpeed) : Init_EEPROM_Call(speed)
  \/ \E speed \in ClockSpeeds(EERAM47x04_I2CCLOCK_MAX) : Init_EERAM47x04_Call(speed)
  \/ \E speed \in ClockSpeeds(SRAM23LCxxx_MaxSPIclockSpeed), recover \in BOOLEAN,
        modeSet \in SRAM23LCxxx_ModeSets,
        mode \in {SRAM23LCxxx_SPI, SRAM23LCxxx_SDI, SRAM23LCxxx_SQI} :
       Init_SRAM23LCxxx_Call(speed, recover, modeSet, mode)

SpecInit == Init /\ [][NextInit]_vars

(***************************************************************************)
(* The CHECK_NULL_PARAM guards of EEPROM_IsReady, EEPROM_ReadData,         *)
(* EEPROM_WriteData and EEPROM_WaitEndOfWrite (EEPROM.c)                   *)
(***************************************************************************)
\* the collaborator that is NULL in a call: the arguments and handle fields the
\* operation takes
NullOf(name) ==
  IF name = "IsReady" THEN {"pComp", "Conf", "fnI2C_Transfer"}
  ELSE IF name = "WaitEndOfWrite" THEN {"pComp", "Conf", "fnI2C_Transfer", "fnGetCurrentms"}
  ELSE {"pComp", "Conf", "fnI2C_Transfer", "fnGetCurrentms", "data"}

\* what a build may do on a read or a call through a null pointer
UndefinedOutcomes == {"trap", ERR_NONE, ERR__DEVICE_TIMEOUT}

\* the frame of a call made with a null collaborator; flags is <<the null
\* collaborator, whether the call went through it>>
NullCall(name, null, a, n, used) ==
  /\ CanCall
  /\ Enter(name, a, n)
  /\ pc' = "ret"
  /\ flags' = <<null, used>>
  /\ wdata' = << >>
  /\ rbuf' = << >>
  /\ trace' = << >>
  /\ UNCHANGED <<conf, AddrA2A1A0, InternalConfig, dma, mem, devPtr, nfault>>

\* EEPROM_IsReady: every null it takes is tested before the transfer
Null_IsReady_Call(null) ==
  /\ NullCall("IsReady", null, 0, 0, FALSE)
  /\ result' = "false"
  /\ UNCHANGED <<clock, StartTime>>

\* EEPROM_ReadData, EEPROM_WriteData: pComp, data, Conf and fnGetCurrentms are
\* tested at the head; a null fnI2C_Transfer is found by the page primitive, after
\* the range check and the start of the timeout
Null_PagedData_Call(name, null, a, n) ==
  /\ NullCall(name, null, a, n, FALSE)
  /\ result' = IF null # "fnI2C_Transfer" THEN "ERR__PARAMETER_ERROR"
               ELSE IF OutOfMemory(conf, a, n) THEN ERR__OUT_OF_MEMORY
               ELSE IF n = 0 THEN ERR_NONE
               ELSE "ERR__PARAMETER_ERROR"
  /\ StartTime' = IF null = "fnI2C_Transfer" /\ ~OutOfMemory(conf, a, n) /\ n > 0
                    THEN clock ELSE StartTime
  /\ UNCHANGED clock

\* EEPROM_WaitEndOfWrite tests nothing: a null pComp is read, a null fnGetCurrentms
\* is called, a null Conf is read at the timeout decision; with a null
\* fnI2C_Transfer EEPROM_IsReady answers false until the timeout
Null_WaitEndOfWrite_Call(null) ==
  IF null = "fnI2C_Transfer"
    THEN /\ NullCall("WaitEndOfWrite", null, 0, 0, FALSE)
         /\ StartTime' = clock
         /\ \E tick \in {conf.PageWriteTime + 2, conf.PageWriteTime + 3} :
              /\ TimeoutElapsed(conf, clock, U32Add(clock, U32(tick)))
              /\ clock' = U32Add(clock, U32(tick))
         /\ result' = ERR__DEVICE_TIMEOUT
    ELSE /\ NullCall("WaitEndOfWrite", null, 0, 0, TRUE)
         /\ result' \in UndefinedOutcomes
         /\ UNCHANGED <<clock, StartTime>>

NextNull ==
  \/ \E null \in NullOf("IsReady") : Null_IsReady_Call(null)
  \/ \E name \in {"ReadData", "WriteData"}, null \in NullOf("ReadData"),
        a \in AddrSet(conf), n \in SizeSet(conf) : Null_PagedData_Call(name, null, a, n)
  \/ \E null \in NullOf("WaitEndOfWrite") : Null_WaitEndOfWrite_Call(null)

SpecNull == Init /\ [][NextNull]_vars

(***************************************************************************)
(* SRAM23LCxxx_SetOperationMode, SRAM23LCxxx_WriteSRAMData and             *)
(* SRAM23LCxxx_ReadSRAMData on the 23x640 (23LCxxx.c)                      *)
(***************************************************************************)
MaxSpiSramCalls == 2

\* SRAM23A640_Conf / SRAM23K640_Conf
SRAM23x640_PageSize == 32
SRAM23x640_ArrayByteSize == 8192

\* eSRAM23LCxxx_Modes
SRAM23LCxxx_BYTE_MODE == 0
SRAM23LCxxx_SEQUENTIAL_MODE == 1
SRAM23LCxxx_PAGE_MODE == 2

SRAM23LCxxx_MODE_Pos == 6
SRAM23LCxxx_MODE_Mask == 3 * Pow2(SRAM23LCxxx_MODE_Pos)
SRAM23LCxxx_MODE_SET(value) == BitAnd((value * Pow2(SRAM23LCxxx_MODE_Pos)) % 256, SRAM23LCxxx_MODE_Mask)
SRAM23LCxxx_MODE_GET(value) == Shr(BitAnd(value % 256, SRAM23LCxxx_MODE_Mask), SRAM23LCxxx_MODE_Pos)

SRAM23LCxxx_HOLD_FEATURE_DISABLE == 1

\* InternalConfig &= 0xFF3E; InternalConfig |= Reg.Status, with
\* Reg.Status = HOLD_FEATURE_ENABLE | MODE_SET(mode) (| HOLD_FEATURE_DISABLE), UseHold of the 23x640 being true
SRAM23LCxxx_ConfigAfterMode(config, mode, disableHold) ==
  BitOr(config - BitAnd(config, 193),
        BitOr(SRAM23LCxxx_MODE_SET(mode),
              IF disableHold THEN SRAM23LCxxx_HOLD_FEATURE_DISABLE ELSE 0))

\* (address + (uint32_t)size) > pConf->ArrayByteSize, for requests far below 2^32
SRAM23LCxxx_OutOfMemory(a, n) == a + n > SRAM23x640_ArrayByteSize

\* faulty variant: the page mode chunk is the whole remainder
SRAM23LCxxx_PageRem_Unclipped(mode, a, n, rem) ==
  IF mode = SRAM23LCxxx_PAGE_MODE THEN n ELSE rem

\* PageRemData of one turn of the loop: recomputed in page mode only, otherwise
\* what it was set to before the loop (1 in byte mode, size in the other modes)
SRAM23LCxxx_PageRem(mode, a, n, rem) ==
  IF mode = SRAM23LCxxx_PAGE_MODE
    THEN LET left == SRAM23x640_PageSize - BitAnd(a, SRAM23x640_PageSize - 1)
         IN IF n < left THEN n ELSE left
    ELSE rem

\* the requests made of the 23x640
SpiSramAddrSet == {0, 20, SRAM23x640_ArrayByteSize - 1}
SpiSramSizeSet == {0, 1, 44}

\* the 23LCxxx handle has no I2C configuration: that part of the state is held fixed
InitSpiSram == Init /\ conf = EERAM47L04_Conf /\ AddrA2A1A0 = 0 /\ clock = U32(0)

\* SRAM23LCxxx_SetOperationMode: SRAM23LCxxx_SetStatus, then the mode is kept in InternalConfig
SRAM23LCxxx_SetOperationMode_Call(mode, disableHold) ==
  /\ pc \in {"idle", "ret"}
  /\ calls < MaxSpiSramCalls
  /\ Enter("SetOperationMode", 0, 0)
  /\ pc' = "ret"
  /\ flags' = <<disableHold, FALSE>>
  /\ wdata' = << >>
  /\ rbuf' = << >>
  /\ \E r1 \in SpiAnswers, r2 \in SpiAnswers :
       /\ r1 # ERR_OK => r2 = ERR_OK
       /\ nfault' = nfault + Faults(r1) + Faults(r2)
       /\ result' = IF r1 # ERR_OK THEN r1 ELSE r2
       /\ trace' = <<[kind |-> "WRSR", addr |-> 0]>>
       /\ InternalConfig' = IF result' = ERR_OK
                              THEN SRAM23LCxxx_ConfigAfterMode(InternalConfig, mode, disableHold)
                              ELSE InternalConfig
  /\ UNCHANGED <<conf, AddrA2A1A0, dma, clock, mem, devPtr, StartTime>>

\* SRAM23LCxxx_WriteSRAMData / SRAM23LCxxx_ReadSRAMData: entry, range check, PageRemData before the loop
SRAM23LCxxx_SRAMData_Call(name, a, n) ==
  /\ pc \in {"idle", "ret"}
  /\ calls < MaxSpiSramCalls
  /\ Enter(name, a, n)
  /\ flags' = <<FALSE, FALSE>>
  /\ wdata' = << >>
  /\ rbuf' = << >>
  /\ trace' = << >>
  /\ IF SRAM23LCxxx_OutOfMemory(a, n)
       THEN /\ pc' = "ret"
            /\ result' = ERR__OUT_OF_MEMORY
       ELSE /\ pc' = "sram_loop"
            /\ result' = "none"
  /\ UNCHANGED <<conf, AddrA2A1A0, InternalConfig, dma, clock, mem, devPtr, StartTime, nfault>>

\* one turn of the loop: PageRemData, then __SRAM23LCxxx_WriteData / __SRAM23LCxxx_ReadData
\* (instruction and address, then the data), then the advance or the return of the error
SRAM23LCxxx_LoopTurn ==
  /\ pc = "sram_loop"
  /\ LET mode == SRAM23LCxxx_MODE_GET(InternalConfig)
         before == IF chunks = << >>
                     THEN (IF mode = SRAM23LCxxx_BYTE_MODE THEN 1 ELSE reqSize)
                     ELSE PageRemData
         rem == SRAM23LCxxx_PageRem(mode, address, size, before)
     IN IF size = 0
          THEN /\ pc' = "ret"
               /\ result' = ERR_OK
               /\ UNCHANGED <<PageRemData, Error, address, size, cursor, chunks, trace, nfault>>
          ELSE /\ PageRemData' = rem
               /\ IF SRAM23LCxxx_OutOfMemory(address, rem)
                    THEN /\ Error' = ERR__OUT_OF_MEMORY
                         /\ UNCHANGED <<trace, nfault>>
                    ELSE \E r1 \in SpiAnswers, r2 \in SpiAnswers :
                           /\ r1 # ERR_OK => r2 = ERR_OK
                           /\ nfault' = nfault + Faults(r1) + Faults(r2)
                           /\ Error' = IF r1 # ERR_OK THEN r1 ELSE r2
                           /\ trace' = Append(trace, [kind |-> op, addr |-> address])
               /\ chunks' = Append(chunks, <<address, rem, Error'>>)
               /\ IF Error' = ERR_OK
                    THEN /\ address' = address + rem
                         /\ cursor' = cursor + rem
                         /\ size' = size - rem
                         /\ pc' = "sram_loop"
                         /\ UNCHANGED result
                    ELSE /\ pc' = "ret"
                         /\ result' = Error'
                         /\ UNCHANGED <<address, cursor, size>>
  /\ UNCHANGED <<conf, AddrA2A1A0, InternalConfig, dma, clock, mem, devPtr, StartTime, wdata,
                 rbuf, op, reqAddr, reqSize, ncalls, lastPkt, elapsed, waited, calls, prev, flags>>

NextSpiSram ==
  \/ \E mode \in {SRAM23LCxxx_BYTE_MODE, SRAM23LCxxx_SEQUENTIAL_MODE, SRAM23LCxxx_PAGE_MODE},
        disableHold \in BOOLEAN : SRAM23LCxxx_SetOperationMode_Call(mode, disableHold)
  \/ \E name \in {"WriteSRAMData", "ReadSRAMData"}, a \in SpiSramAddrSet, n \in SpiSramSizeSet :
       SRAM23LCxxx_SRAMData_Call(name, a, n)
  \/ SRAM23LCxxx_LoopTurn

SpecSpiSram == InitSpiSram /\ [][NextSpiSram]_vars

(***************************************************************************)
(* EEPROM_ReadData, EEPROM_WriteData and EEPROM_WaitEndOfWrite on a device *)
(* that may stay busy for any length of time                               *)
(***************************************************************************)
\* the transfers counted in one call; the count stops there
MaxCounted == 4

\* the address packet NACKed by a device that is busy with its write cycle
NotReadyAddressPhase ==
  /\ pc = "page_addr"
  /\ PageRemData <= conf.PageSize
  /\ lastPkt' = AddressPacket(conf, AddrA2A1A0, address)
  /\ ncalls' = Min(ncalls + 1, MaxCounted)
  /\ Error' = AddressPhaseError(ERR__I2C_NACK)
  /\ pc' = "page_ret"
  /\ UNCHANGED <<handleVars, argVars, clock, mem, devPtr, op, address, size, cursor, PageRemData,
                 StartTime, result, rbuf, chunks, elapsed, waited, nfault>>

\* the probe of EEPROM_IsReady NACKed by a device that is busy with its write cycle
NotReadyPoll ==
  /\ pc = "wait_poll"
  /\ op = "WaitEndOfWrite"
  /\ lastPkt' = IsReadyPacket(conf, AddrA2A1A0)
  /\ ncalls' = Min(ncalls + 1, MaxCounted)
  /\ Error' = ERR__I2C_NACK
  /\ ~IsReadyResult(Error')
  /\ pc' = "wait_check"
  /\ UNCHANGED <<handleVars, argVars, clock, mem, devPtr, op, address, size, cursor,
                 PageRemData, StartTime, result, rbuf, chunks, elapsed, waited, nfault>>

\* the calls made of one handle
MaxBusyCalls == 1

InitBusy == Init /\ conf = AT24C01A_Conf

\* requests of no byte, of one chunk and of two chunks
BusySizeSet == {0, 1, 2}

\* a step inside a call: every transfer returns, every statement is executed
CallStep ==
  \/ PageLoop
  \/ PageAddressPhase
  \/ NotReadyAddressPhase
  \/ WritePageData
  \/ ReadPageData
  \/ PageReturn
  \/ WaitPoll
  \/ NotReadyPoll
  \/ WaitCheck

NextBusy ==
  \/ \E n \in BusySizeSet :
       calls < MaxBusyCalls /\ EEPROM_WriteData_Call(conf.PageSize - 1, n, 0)
  \/ \E n \in BusySizeSet :
       calls < MaxBusyCalls /\ EEPROM_ReadData_Call(conf.PageSize - 1, n)
  \/ calls < MaxBusyCalls /\ EEPROM_WaitEndOfWrite_Call
  \/ CallStep

\* a timeout decision that reads a later millisecond than the decision before
ClockAdvances == (PageReturn \/ WaitCheck) /\ clock' # clock

SpecBusy == InitBusy /\ [][NextBusy]_vars

\* every statement of a running call is executed, and fnGetCurrentms() keeps advancing
SpecBusyFair == SpecBusy /\ WF_vars(CallStep) /\ SF_vars(ClockAdvances)

(***************************************************************************)
(* The upfront range check on requests anywhere in the 32-bit range        *)
(* (EEPROM_ReadData, SRAM23LCxxx_ReadSRAMData)                             *)
(***************************************************************************)
\* (address + size) > total with the sum taken in uint32_t, the operands given as uint32_t
OutOfMemoryU32(A, N, total) == U32Gt(U32Add(A, N), U32(total))

\* address + size > total in the integers
ExceedsArray(A, N, total) ==
  LET lo == A[2] + N[2]
      hi == A[1] + N[1] + (lo \div W16)
  IN hi > U32(total)[1] \/ (hi = U32(total)[1] /\ lo % W16 > U32(total)[2])

\* the addresses and sizes tried: around the end of the array and around 2^32
RangeAddrSet(total) == {U32(0), U32(total - 1), U32(total), U32Sub(UINT32_MAX, U32(1)), UINT32_MAX}
RangeSizeSet(total) == {U32(0), U32(1), U32(2), U32(total), UINT32_MAX}

\* a read of N bytes at A on an array of total bytes: the check, then the first
\* address put on the bus if the check lets the request through
RangeCheck_Call(name, total, A, N) ==
  /\ CanCall
  /\ op' = name
  /\ pc' = "ret"
  /\ flags' = <<A, N, total>>
  /\ calls' = calls + 1
  /\ prev' = IF pc = "ret" THEN Returned ELSE NoCall
  /\ IF OutOfMemoryU32(A, N, total)
       THEN /\ result' = ERR__OUT_OF_MEMORY
            /\ trace' = << >>
       ELSE /\ result' \in SpiAnswers
            /\ trace' = IF N = U32(0) THEN << >> ELSE <<[kind |-> "addr", addr |-> A]>>
  /\ UNCHANGED <<conf, AddrA2A1A0, InternalConfig, dma, clock, mem, devPtr, StartTime, nfault,
                 wdata, rbuf, reqAddr, reqSize, address, size, cursor, PageRemData, Error,
                 ncalls, chunks, lastPkt, elapsed, waited>>

EERAM48LM01_PAGE_SIZE == 128
EERAM48LM01_EERAM_SIZE == 131072

\* the checks at the head of ReadSecure and WriteSecure on operands of any width:
\* address & PAGE_SIZE_MASK, size % PAGE_SIZE, and the sum taken in uint32_t
SecureRefusalU32(page, total, A, N) ==
  IF BitAnd(A[2], page - 1) # 0 THEN "ERR__ADDRESS_ALIGNMENT"
  ELSE IF N[2] % page # 0 THEN "ERR__BAD_DATA_SIZE"
  ELSE IF OutOfMemoryU32(A, N, total) THEN ERR__OUT_OF_MEMORY
  ELSE ERR_NONE

\* the secure requests tried: a uint16_t address on the 48L512, a uint32_t one on
\* the 48LM01, sizes of no page, part of a page, whole pages and the largest
\* multiple of the page size a 32-bit size_t holds
SecureAddrSetU32(page, total) ==
  {U32(0), U32(1), U32(page), U32(total - page)}
    \cup (IF total > W16 THEN {U32Sub(UINT32_MAX, U32(page - 1))} ELSE {})
SecureSizeSetU32(page) ==
  {U32(0), U32(1), U32(page), U32(2 * page), U32Sub(UINT32_MAX, U32(page - 1))}

\* a secure read or write of N bytes at A: the three checks, then the first page
\* put on the bus if the checks let the request through
SecureCheck_Call(name, page, total, A, N) ==
  /\ CanCall
  /\ op' = name
  /\ pc' = "ret"
  /\ flags' = <<A, N, total, page>>
  /\ calls' = calls + 1
  /\ prev' = IF pc = "ret" THEN Returned ELSE NoCall
  /\ IF SecureRefusalU32(page, total, A, N) # ERR_NONE
       THEN /\ result' = SecureRefusalU32(page, total, A, N)
            /\ trace' = << >>
       ELSE /\ result' \in SpiAnswers
            /\ trace' = IF N = U32(0) THEN << >> ELSE <<[kind |-> "secure", addr |-> A]>>
  /\ UNCHANGED <<conf, AddrA2A1A0, InternalConfig, dma, clock, mem, devPtr, StartTime, nfault,
                 wdata, rbuf, reqAddr, reqSize, address, size, cursor, PageRemData, Error,
                 ncalls, chunks, lastPkt, elapsed, waited>>

SecureOps48L512 == {"EERAM48L512_ReadSecure", "EERAM48L512_WriteSecure"}
SecureOps48LM01 == {"EERAM48LM01_ReadSecure", "EERAM48LM01_WriteSecure"}

NextRange ==
  \/ \E A \in RangeAddrSet(conf.TotalByteSize), N \in RangeSizeSet(conf.TotalByteSize) :
       RangeCheck_Call("EEPROM_ReadData", conf.TotalByteSize, A, N)
  \/ \E A \in RangeAddrSet(SRAM23x640_ArrayByteSize), N \in RangeSizeSet(SRAM23x640_ArrayByteSize) :
       RangeCheck_Call("SRAM23LCxxx_ReadSRAMData", SRAM23x640_ArrayByteSize, A, N)
  \/ \E name \in SecureOps48L512,
        A \in SecureAddrSetU32(EERAM48L512_PAGE_SIZE, EERAM48L512_EERAM_SIZE),
        N \in SecureSizeSetU32(EERAM48L512_PAGE_SIZE) :
       SecureCheck_Call(name, EERAM48L512_PAGE_SIZE, EERAM48L512_EERAM_SIZE, A, N)
  \/ \E name \in SecureOps48LM01,
        A \in SecureAddrSetU32(EERAM48LM01_PAGE_SIZE, EERAM48LM01_EERAM_SIZE),
        N \in SecureSizeSetU32(EERAM48LM01_PAGE_SIZE) :
       SecureCheck_Call(name, EERAM48LM01_PAGE_SIZE, EERAM48LM01_EERAM_SIZE, A, N)

SpecRange == Init /\ [][NextRange]_vars

(***************************************************************************)
(* EEPROM_TIME_DIFF and EERAM47x04_TIME_DIFF on values anywhere in uint32_t *)
(***************************************************************************)
\* the clock values tried: the ends of the range, its middle and the 16-bit carry
TimeSet == {<<hi, lo>> : hi \in {0, 1, 32767, 32768, W16 - 1}, lo \in {0, 1, W16 - 2, W16 - 1}}

TimeDiffMacros == {"EEPROM_TIME_DIFF", "EERAM47x04_TIME_DIFF"}

InitTime == Init /\ conf = AT24C01A_Conf /\ AddrA2A1A0 = 0 /\ clock = U32(0)

\* one evaluation of the macro on StartTime = begin and a clock that reads end
TimeDiff_Call(name, begin, end) ==
  /\ op' = name
  /\ pc' = "ret"
  /\ StartTime' = begin
  /\ clock' = end
  /\ elapsed' = EEPROM_TIME_DIFF(begin, end)
  /\ UNCHANGED <<conf, AddrA2A1A0, InternalConfig, dma, trace, mem, devPtr, nfault,
                 wdata, rbuf, reqAddr, reqSize, address, size, cursor, PageRemData, Error,
                 result, ncalls, chunks, lastPkt, waited, calls, prev, flags>>

NextTime == \E name \in TimeDiffMacros, begin \in TimeSet, end \in TimeSet :
              TimeDiff_Call(name, begin, end)

SpecTime == InitTime /\ [][NextTime]_vars

(***************************************************************************)
(* SRAM23LCxxx_SetIOmode and the I/O mode of the device (23LCxxx.c)        *)
(***************************************************************************)
\* calls of SRAM23LCxxx_SetIOmode made on one handle
MaxIOmodeCalls == 2

SRAM23LCxxx_IO_MODE_Mask == 7 * Pow2(SRAM23LCxxx_IO_MODE_Pos)
SRAM23LCxxx_IO_MODE_SET(value) ==
  BitAnd(value * Pow2(SRAM23LCxxx_IO_MODE_Pos), SRAM23LCxxx_IO_MODE_Mask)
SRAM23LCxxx_IO_MODE_GET(value) ==
  Shr(BitAnd(value, SRAM23LCxxx_IO_MODE_Mask), SRAM23LCxxx_IO_MODE_Pos)

\* the I/O mode the device is in; devPtr holds it in this part of the model
DeviceIOmode == devPtr

\* the transport calls of SRAM23LCxxx_SetIOmode after its checks, on a handle
\* whose InternalConfig records the I/O mode recorded
SRAM23LCxxx_SetIOmodePlan(recorded, mode) ==
  (IF recorded # SRAM23LCxxx_SPI
     THEN <<TransportCall("transfer", "RSTIO")>>
          \o (IF mode # SRAM23LCxxx_SPI THEN <<TransportCall("init", "SPI_MODE0")>>
              ELSE << >>)
     ELSE << >>)
  \o (IF mode = SRAM23LCxxx_SDI THEN <<TransportCall("transfer", "EDIO")>>
      ELSE IF mode = SRAM23LCxxx_SQI THEN <<TransportCall("transfer", "EQIO")>>
      ELSE << >>)
  \o <<TransportCall("init", IF mode = SRAM23LCxxx_SDI THEN "DUAL_SPI_MODE0"
                             ELSE IF mode = SRAM23LCxxx_SQI THEN "QUAD_SPI_MODE0"
                             ELSE "SPI_MODE0")>>

\* the I/O mode of a device in mode m after it was sent the instructions of done:
\* RSTIO returns it to SPI, EDIO and EQIO enter SDI and SQI
RECURSIVE DeviceModeAfter(_, _)
DeviceModeAfter(m, done) ==
  IF done = << >> THEN m
  ELSE LET c == done[1]
           next == IF c.kind # "transfer" THEN m
                   ELSE IF c.what = "RSTIO" THEN SRAM23LCxxx_SPI
                   ELSE IF c.what = "EDIO" THEN SRAM23LCxxx_SDI
                   ELSE IF c.what = "EQIO" THEN SRAM23LCxxx_SQI
                   ELSE m
       IN DeviceModeAfter(next, Tail(done))

\* Init_SRAM23LCxxx on a device that has powered up, in SPI mode:
\* InternalConfig = SRAM23LCxxx_IO_MODE_SET(SRAM23LCxxx_SPI)
Init_SRAM23LCxxx_Start ==
  /\ pc = "idle"
  /\ Enter("Init_SRAM23LCxxx", 0, 0)
  /\ pc' = "ret"
  /\ result' = ERR_NONE
  /\ InternalConfig' = SRAM23LCxxx_IO_MODE_SET(SRAM23LCxxx_SPI)
  /\ devPtr' = SRAM23LCxxx_SPI
  /\ trace' = << >>
  /\ UNCHANGED <<conf, AddrA2A1A0, dma, clock, mem, StartTime, wdata, rbuf, flags, nfault>>

\* SRAM23LCxxx_SetIOmode: the checks, then the transport calls up to the one that
\* fails, the k-th; an instruction the transport has transferred is taken by the
\* device, a failed call leaves the device as it was
SRAM23LCxxx_SetIOmode_Call(speed, modeSet, mode) ==
  /\ pc = "ret"
  /\ calls <= MaxIOmodeCalls
  /\ Enter("SRAM23LCxxx_SetIOmode", 0, 0)
  /\ pc' = "ret"
  /\ flags' = <<mode, modeSet>>
  /\ LET check == SRAM23LCxxx_CheckConfiguration(speed, modeSet, mode)
         plan == SRAM23LCxxx_SetIOmodePlan(SRAM23LCxxx_IO_MODE_GET(InternalConfig), mode)
     IN IF check # ERR_NONE
          THEN /\ result' = check
               /\ trace' = << >>
               /\ UNCHANGED <<InternalConfig, devPtr, nfault>>
          ELSE \E k \in failedAt(plan) :
                 IF k > 0
                   THEN /\ result' = "ERR__SPI_CONFIG_ERROR"
                        /\ nfault' = nfault + 1
                        /\ trace' = SubSeq(plan, 1, k)
                        /\ devPtr' = DeviceModeAfter(devPtr, SubSeq(plan, 1, k - 1))
                        /\ UNCHANGED InternalConfig
                   ELSE /\ result' = ERR_OK
                        /\ trace' = plan
                        /\ devPtr' = DeviceModeAfter(devPtr, plan)
                        /\ InternalConfig' =
                             BitOr(InternalConfig - BitAnd(InternalConfig, SRAM23LCxxx_IO_MODE_Mask),
                                   SRAM23LCxxx_IO_MODE_SET(mode))
                        /\ UNCHANGED nfault
  /\ UNCHANGED <<conf, AddrA2A1A0, dma, clock, mem, StartTime, wdata, rbuf>>

NextIOmode ==
  \/ Init_SRAM23LCxxx_Start
  \/ \E speed \in ClockSpeeds(SRAM23LCxxx_MaxSPIclockSpeed),
        modeSet \in SRAM23LCxxx_ModeSets,
        mode \in {SRAM23LCxxx_SPI, SRAM23LCxxx_SDI, SRAM23LCxxx_SQI} :
       SRAM23LCxxx_SetIOmode_Call(speed, modeSet, mode)

SpecIOmode == InitSpiSram /\ [][NextIOmode]_vars

(***************************************************************************)
(* Properties                                                              *)
(***************************************************************************)
PagedOps == {"WriteData", "ReadData"}

\* the calls whose timeout decision is EEPROM_TIME_DIFF(...) > PageWriteTime + 1
GenericOps == {"WriteData", "ReadData", "WaitEndOfWrite"}

RECURSIVE SumLen(_)
SumLen(cs) == IF cs = << >> THEN 0 ELSE cs[Len(cs)][2] + SumLen(SubSeq(cs, 1, Len(cs) - 1))

\* a read that has returned, of the very range a successful write has just written
ReadBack ==
  /\ op = "ReadData" /\ pc = "ret"
  /\ prev.op = "WriteData" /\ prev.result = ERR_NONE
  /\ prev.addr = reqAddr /\ prev.size = reqSize

\* C1: after EEPROM_WriteData returned success, EEPROM_ReadData of the same address and
\* size gives back exactly the bytes written whenever it returns success, and it does
\* return success when the transport fails no transfer, for every shipped profile.
C1_RoundTrip ==
  ReadBack =>
    /\ result = ERR_NONE => rbuf = prev.data
    /\ nfault = 0 => result = ERR_NONE

\* a read back over three chunks that gave the written bytes
C1_Witness ==
  /\ ReadBack
  /\ result = ERR_NONE
  /\ Len(chunks) = 3
  /\ rbuf = prev.data
  /\ Len(rbuf) = conf.PageSize + 2

ChunkRule(i) ==
  LET a == chunks[i][1]
      n == chunks[i][2]
      left == reqSize - SumLen(SubSeq(chunks, 1, i - 1))
  IN  /\ n = Min(left, conf.PageSize - (a % conf.PageSize))
      /\ n >= 1
      /\ a \div conf.PageSize = (a + n - 1) \div conf.PageSize

\* C3: every page transfer of EEPROM_ReadData / EEPROM_WriteData has the length
\* min(remaining, PageSize - (address mod PageSize)), so it never spans a multiple of
\* PageSize, and on success the lengths of the chunks add up to the requested size.
C3_ChunkWithinPage ==
  op \in PagedOps =>
    /\ pc \in {"page_addr", "page_data", "page_ret"} =>
         /\ PageRemData = Min(size, conf.PageSize - (address % conf.PageSize))
         /\ PageRemData >= 1
         /\ address \div conf.PageSize = (address + PageRemData - 1) \div conf.PageSize
    /\ (pc = "page_ret" /\ lastPkt.kind \in {"wdata", "rdata"}) =>
         lastPkt.BufferSize = PageRemData
    /\ \A i \in 1..Len(chunks) : ChunkRule(i)
    /\ (pc = "ret" /\ result = ERR_NONE) => SumLen(chunks) = reqSize

\* a write that started on the last byte of a page and took three chunks
C3_Witness ==
  /\ op = "WriteData" /\ pc = "ret" /\ result = ERR_NONE
  /\ Len(chunks) = 3
  /\ chunks[1][2] = 1
  /\ chunks[2][2] = conf.PageSize
  /\ SumLen(chunks) = reqSize

\* C4: EEPROM_ReadData / EEPROM_WriteData never return ERR__NOT_READY: a page whose
\* address phase was NACKed is tried again, the same page, until it succeeds, fails
\* with another error, or the timeout has elapsed and ERR__DEVICE_TIMEOUT is returned.
C4_NotReadyRetried ==
  [][/\ (pc = "page_ret" /\ Error = ERR__NOT_READY) =>
          \/ /\ pc' = "page_addr"
             /\ address' = address /\ size' = size /\ cursor' = cursor
             /\ PageRemData' = PageRemData /\ chunks' = chunks
          \/ /\ pc' = "ret" /\ result' = ERR__DEVICE_TIMEOUT
             /\ waited' > conf.PageWriteTime + 1
     /\ (pc' = "ret" /\ op' \in PagedOps) => result' # ERR__NOT_READY]_vars

\* a write that succeeded after the address phase of a page had been NACKed
C4_Witness ==
  /\ op = "WriteData" /\ pc = "ret" /\ result = ERR_NONE
  /\ reqSize > 0
  /\ nfault = 1
  /\ ncalls = 2 * Len(chunks) + 1

\* C5: an error of a page transfer other than ERR__NOT_READY is returned at once and
\* unchanged by EEPROM_ReadData / EEPROM_WriteData, with no further bus transfer.
C5_ErrorReturnedAtOnce ==
  [][(pc = "page_ret" /\ Error \notin {ERR_NONE, ERR__NOT_READY}) =>
       /\ pc' = "ret" /\ result' = Error
       /\ ncalls' = ncalls /\ lastPkt' = lastPkt
       /\ mem' = mem /\ chunks' = chunks]_vars

\* a read that gave back a bus error of its second chunk, with bytes left to read
C5_Witness ==
  /\ op = "ReadData" /\ pc = "ret"
  /\ result = ERR__I2C_OTHER_BUSY
  /\ Len(chunks) = 1
  /\ size > 0

TimedOut == pc = "ret" /\ result = ERR__DEVICE_TIMEOUT

\* C6 (as written): a poll observing elapsed = PageWriteTime + 1 returns
\* ERR__DEVICE_TIMEOUT, a poll observing elapsed = PageWriteTime does not.
C6_TimeoutAtBound ==
  op \in GenericOps =>
    /\ elapsed = U32(conf.PageWriteTime + 1) => TimedOut
    /\ elapsed = U32(conf.PageWriteTime) => ~TimedOut

\* C6 (amended): the timeout decision gives ERR__DEVICE_TIMEOUT exactly when the
\* elapsed time it observes exceeds PageWriteTime + 1: a poll observing
\* elapsed = PageWriteTime + 2 times out, one observing PageWriteTime + 1 or less
\* does not.
C6_TimeoutPastBound ==
  (op \in GenericOps /\ elapsed # NoElapsed) =>
    /\ TimedOut <=> U32Gt(elapsed, U32(conf.PageWriteTime + 1))
    /\ elapsed = U32(conf.PageWriteTime + 2) => TimedOut
    /\ elapsed = U32(conf.PageWriteTime + 1) => ~TimedOut

\* EEPROM_WaitEndOfWrite timed out on observing elapsed = PageWriteTime + 2
C6_Witness ==
  /\ op = "WaitEndOfWrite" /\ TimedOut
  /\ elapsed = U32(conf.PageWriteTime + 2)

\* the time a wait loop is meant to allow before it gives up
WaitBound ==
  IF op = "AT24MAC402_WaitEndOfWrite" THEN AT24MAC402_WaitTime
  ELSE IF op = "EERAM47x16_StoreSRAMtoEEPROM" THEN EERAM47x16_STORE_TIMEOUT + 1
  ELSE conf.PageWriteTime + 2

\* C7: every timeout decision is safe across the wrap of the 32-bit millisecond
\* clock: a wait loop gives ERR__DEVICE_TIMEOUT only once the time really elapsed
\* since its start has reached its bound, wherever the clock stood at the start.
C7_WrapSafe == TimedOut => waited >= WaitBound

\* C8: EEPROM_WaitEndOfWrite returns a bus error other than the not-ready NACK at
\* once: it polls again only after a NACK, and never turns another error into a
\* timeout.
C8_BusErrorReturned ==
  op = "WaitEndOfWrite" =>
    /\ (pc = "wait_poll" /\ ncalls > 0) => Error = ERR__I2C_NACK
    /\ (pc = "ret" /\ Error \notin {ERR_NONE, ERR__I2C_NACK}) => result = Error

WriteSucceeded == op = "WriteData" /\ pc = "ret" /\ result = ERR_NONE /\ reqSize > 0

\* C9 (as written): when EEPROM_WriteData returns success the device has been seen
\* ready after the last page write: the last transfer is an acknowledged probe or
\* address phase that follows the data phase of the final page.
C9_SettledAfterLastPage == WriteSucceeded => lastPkt.kind \in {"probe", "addr"}

\* C9 (amended): EEPROM_WriteData has no wait of its own after a page: a page costs
\* its address phase and its data phase, plus one address phase for each NACK of a
\* device still busy with the page before, and after the data phase of the final
\* page the call returns success without another transfer.
C9_NoSettleAfterLastPage ==
  WriteSucceeded =>
    /\ lastPkt.kind = "wdata"
    /\ lastPkt.Buffer = SubSeq(wdata, reqSize - chunks[Len(chunks)][2] + 1, reqSize)
    /\ ncalls = 2 * Len(chunks) + nfault
    /\ elapsed = NoElapsed => ncalls = 2 * Len(chunks)

\* a write of two pages that returned right after the data phase of the second
C9_Witness ==
  /\ WriteSucceeded
  /\ Len(chunks) = 2
  /\ lastPkt.kind = "wdata"
  /\ ncalls = 4

\* C10: for every shipped profile and every address below TotalByteSize, the device
\* address byte and the address bytes built by __EEPROM_WriteAddress, most
\* significant byte first, decode to that very address.
C10_CodecRoundTrip ==
  pc = "codec" =>
    /\ DecodeAddress(conf, lastPkt.ChipAddr, lastPkt.Buffer) = address
    /\ devPtr = address
    /\ Len(lastPkt.Buffer) = AddrBytes(conf)
    /\ BigEndian(lastPkt.Buffer) = address % Pow2(8 * AddrBytes(conf))
    /\ BitAnd(lastPkt.ChipAddr, I2C_READ_ORMASK) = 0

\* an address with bits above its address bytes, on a handle with all pins strapped high
C10_Witness ==
  /\ pc = "codec"
  /\ address >= Pow2(8 * AddrBytes(conf))
  /\ address % 256 = 255
  /\ AddrA2A1A0 = EEPROM_ADDR(1, 1, 1)
  /\ devPtr = address

\* C11: the chip-address byte built by __EEPROM_WriteAddress differs from
\* (ChipAddress | AddrA2A1A0) with the R/W bit cleared only in the bit positions
\* the AddressType of the profile declares as address bits; in those positions it
\* carries the address bits above the address bytes and nothing else.
C11_FoldedBitsInMask ==
  pc = "codec" =>
    LET mask == AddrTypeAx(conf)
        base == BitAnd(BitOr(conf.ChipAddress, AddrA2A1A0), I2C_WRITE_ANDMASK)
    IN  /\ BitAnd(lastPkt.ChipAddr, 255 - mask) = BitAnd(base, 255 - mask)
        /\ BitAnd(lastPkt.ChipAddr, mask) = 2 * ((address \div Pow2(8 * AddrBytes(conf))) % 8)
        /\ lastPkt.ChipAddr < 256

\* all pins strapped high on a profile with address bits in the chip address, and an
\* address whose folded bits are not all set: the byte differs from the strapped one
C11_Witness ==
  /\ pc = "codec"
  /\ AddrTypeAx(conf) # 0
  /\ AddrA2A1A0 = EEPROM_ADDR(1, 1, 1)
  /\ address \div Pow2(8 * AddrBytes(conf)) = 1
  /\ lastPkt.ChipAddr # BitAnd(BitOr(conf.ChipAddress, AddrA2A1A0), I2C_WRITE_ANDMASK)

\* C12: within one EEPROM_ReadData / EEPROM_WriteData call the chunks go in strictly
\* increasing address order, each starting where the one before ended, and a chunk
\* is started only after the transfer of the one before has returned ERR_NONE.
C12_ChunksInOrder ==
  op \in PagedOps =>
    /\ \A i \in 1..Len(chunks) :
         /\ chunks[i][1] = reqAddr + SumLen(SubSeq(chunks, 1, i - 1))
         /\ chunks[i][3] = ERR_NONE
         /\ i > 1 => chunks[i][1] > chunks[i - 1][1]
    /\ pc \in {"loop", "page_addr", "page_data", "page_ret"} =>
         /\ address = reqAddr + SumLen(chunks)
         /\ cursor = SumLen(chunks)
         /\ size = reqSize - SumLen(chunks)
    /\ pc = "page_data" => devPtr = address

\* the third chunk of a read in its data phase, two chunks done before it
C12_Witness ==
  /\ op = "ReadData" /\ pc = "page_data"
  /\ Len(chunks) = 2
  /\ address = chunks[2][1] + chunks[2][2]
  /\ devPtr = address

\* C13: AT24MAC402_WriteEEPROMData / AT24MAC602_WriteEEPROMData, built without the
\* generic driver, issue the page writes EEPROM_WriteData issues with the same
\* profile: same addresses, same lengths, same bytes; the bytes sent for the chunk
\* at address a are data[a - startAddress] onward, so that on success the device
\* holds the caller's bytes over the range.
C13_SamePageWrites ==
  op = "AT24MAC402_WriteEEPROMData" =>
    /\ pc \in {"page_addr", "page_data", "page_ret"} =>
         PageRemData = PageRem(conf, reqAddr + cursor, size)
    /\ (pc = "page_ret" /\ lastPkt.kind = "addr") =>
         lastPkt = AddressPacket(conf, AddrA2A1A0, reqAddr + cursor)
    /\ (pc = "page_ret" /\ lastPkt.kind = "wdata") =>
         /\ devPtr = reqAddr + cursor
         /\ lastPkt = WriteDataPacket(conf, AddrA2A1A0,
                                      SubSeq(wdata, cursor + 1, cursor + PageRemData))
    /\ (pc = "ret" /\ result = ERR_NONE) =>
         \A i \in 1..reqSize : MemByte(mem, reqAddr + i - 1) = wdata[i]

\* the operations of the 47x04 DMA model and the direction each one transfers in
DmaOps == {"EERAM47x04_ReadSRAMDataWithDMA", "EERAM47x04_WriteSRAMDataWithDMA"}
DmaDir == IF op = "EERAM47x04_ReadSRAMDataWithDMA" THEN "read" ELSE "write"
DmaReturned == pc = "ret" /\ op \in DmaOps

\* C14: whenever a WithDMA function returns ERR_NONE, the transfer described by
\* that call's own direction, address and size has been started and has completed.
C14_OwnTransferCompleted ==
  (DmaReturned /\ result = ERR_NONE)
    => /\ dma.done
       /\ dma.xfer = [dir |-> DmaDir, addr |-> reqAddr, size |-> reqSize]

\* the packets of a call that only asked for the state of the transfer in progress
OnlyChecked ==
  /\ Len(trace) = 1
  /\ trace[1].kind = "check"
  /\ trace[1].Number = dma.number

\* C15 as stated: while a transfer is in progress, every call to a WithDMA function
\* issues exactly one status check with the transfer's transaction number and
\* starts no address or data transfer.
C15_CallOnlyChecks ==
  (DmaReturned /\ flags[1]) => OnlyChecked

\* C15: while a transfer is in progress, a call to a WithDMA function whose request
\* passes the range check issues exactly one status check carrying the transaction
\* number the transport returned when the transfer was started, and starts no
\* address or data transfer; a request that fails the range check issues nothing.
C15_InRangeCallOnlyChecks ==
  (DmaReturned /\ flags[1])
    => IF EERAM47x04_OutOfMemory(reqAddr, reqSize)
         THEN trace = << >> /\ result = ERR__OUT_OF_MEMORY
         ELSE OnlyChecked

C15_Witness ==
  /\ DmaReturned
  /\ flags[1]
  /\ OnlyChecked
  /\ dma.number = 63
  /\ dma.xfer.dir # DmaDir
  /\ result = ERR_NONE

\* C16: in a secure write of more than one page made with write enable asserted
\* before the call, a WREN command is sent between consecutive pages, before the
\* next page's secure write is issued.
C16_WriteEnableBetweenPages ==
  (op = "EERAM48L512_WriteSecure" /\ flags[1])
    => \A i, j \in 1..Len(trace) :
         (i < j /\ trace[i].kind = "SWRITE" /\ trace[j].kind = "SWRITE")
           => \E k \in (i + 1)..(j - 1) : trace[k].kind = "WREN"

\* a forced store that waits for its end
ForcedStore == op = "EERAM47x04_StoreSRAMtoEEPROM" /\ flags = <<TRUE, TRUE>>

\* the i-th transfer is a status read that was answered and shows the bit clear
ShowsClear(i) ==
  /\ trace[i].kind = "rdata"
  /\ trace[i].Error = ERR_NONE
  /\ BitAnd(trace[i].Buffer[1], EERAM47x04_ARRAY_MODIFIED) = 0

\* C17: EERAM47x04_StoreSRAMtoEEPROM(forceStore = true, waitEndOfStore = true)
\* issues exactly one write of STORE to the command register and after it only
\* reads of the status register; it returns success at the first read that shows
\* the array-modified bit clear, and the device-timeout error only once more than
\* STORE_TIMEOUT + 1 ms have passed with no read showing the bit clear; until then
\* it keeps polling.
C17_StoreThenPoll ==
  ForcedStore =>
    /\ \A i \in 1..Len(trace) :
         /\ i = 1 => /\ trace[i].kind = "addr"
                     /\ trace[i].Buffer = <<EERAM47x04_COMMAND_REGISTER_ADDR>>
         /\ i = 2 => /\ trace[i].kind = "wdata"
                     /\ trace[i].Buffer = <<EERAM47x04_STORE_COMMAND>>
         /\ i > 2 => trace[i].kind = "rdata"
    /\ (pc = "ret" /\ result = ERR_NONE)
         => /\ Len(trace) > 2
            /\ ShowsClear(Len(trace))
            /\ \A i \in 3..(Len(trace) - 1) : ~ShowsClear(i)
    /\ TimedOut
         => /\ waited > EERAM47x04_STORE_TIMEOUT + 1
            /\ \A i \in 3..Len(trace) : ~ShowsClear(i)
    /\ pc \in {"store_poll", "store_check"}
         => /\ waited <= EERAM47x04_STORE_TIMEOUT + 1
            /\ \A i \in 3..Len(trace) : ~ShowsClear(i)

\* a forced store timed out at its second decision, the first one having been
\* taken with no more than STORE_TIMEOUT + 1 ms passed
C17_Witness ==
  /\ ForcedStore
  /\ TimedOut
  /\ Len(trace) = 4
  /\ waited = 2 * EERAM47x04_STORE_TIMEOUT + 1

\* C18: the STORE and RECALL wait loops decide as the write-settle waiter with
\* maxWaitMs set to the store time does: they give the device-timeout error at a
\* poll exactly when the time elapsed since the start of the wait exceeds
\* maxWaitMs + 1, and go on polling otherwise.
C18_DecidesAsWriteSettleWaiter ==
  op = "EERAM47x16_StoreSRAMtoEEPROM" =>
    /\ TimedOut => waited > EERAM47x16_STORE_TIMEOUT + 1
    /\ pc = "store_poll" => waited <= EERAM47x16_STORE_TIMEOUT + 1

\* C19: an SRAM read or write of the EERAM47x04 or the EERAM47x16 whose
\* address + size is beyond the size of the device returns the error of the range
\* check with no bus transfer, for every 16-bit address and every size.
C19_NoBusBeyondDevice ==
  (pc = "ret" /\ op \in {"EERAM47x04_ReadSRAMData", "EERAM47x04_WriteSRAMData",
                         "EERAM47x16_ReadSRAMData", "EERAM47x16_WriteSRAMData"}
     /\ reqAddr + reqSize > SramSize)
    => trace = << >> /\ result = ERR__OUT_OF_MEMORY

\* C20: an initialisation with a configured clock speed above the maximum of the
\* device returns the bus-frequency error before the transport is initialised and
\* before any transfer is issued.
C20_FrequencyCheckedFirst ==
  (pc = "ret" /\ op \in {"Init_EEPROM", "Init_EERAM47x04", "Init_SRAM23LCxxx"} /\ flags[1])
    => /\ result \in {"ERR__I2C_FREQUENCY_ERROR", "ERR__SPI_FREQUENCY_ERROR"}
       /\ trace = << >>

\* C21: with the null checks compiled in, EEPROM_IsReady, EEPROM_ReadData,
\* EEPROM_WriteData and EEPROM_WaitEndOfWrite called with a null device, profile,
\* transfer function, clock function or buffer fail with the parameter error
\* (EEPROM_IsReady: false) before any bus activity and without going through the
\* null collaborator.
C21_NullFailsFast ==
  (pc = "ret" /\ op \in {"IsReady", "ReadData", "WriteData", "WaitEndOfWrite"})
    => /\ result = IF op = "IsReady" THEN "false" ELSE "ERR__PARAMETER_ERROR"
       /\ trace = << >>
       /\ ~flags[2]

\* the error a page primitive gives for a transfer the device NACKed on a byte:
\* only these two values stem from the transport's ERR__I2C_NACK_DATA
NackDataReports == {ERR__I2C_NACK_DATA, ERR__I2C_INVALID_ADDRESS}

C23_NeverOutOfRange ==
  /\ (pc \in {"page_addr", "page_data", "page_ret"}
        => PageRemData >= 1 /\ PageRemData <= conf.PageSize)
  /\ (pc = "page_ret" => Error # ERR__OUT_OF_RANGE)
  /\ (pc = "ret" /\ op \in PagedOps => result # ERR__OUT_OF_RANGE)

\* a read longer than a page, begun at the last byte of a page, came to its end
C23_Witness ==
  /\ pc = "ret" /\ op = "ReadData"
  /\ reqSize > conf.PageSize
  /\ reqAddr % conf.PageSize = conf.PageSize - 1
  /\ result = ERR_NONE

\* C24 (as stated): on the 23x640, SRAM23LCxxx_WriteSRAMData(20, 44 bytes) that
\* succeeds has made exactly two write transactions, (20, 12) then (32, 32).
C24_TwoChunks ==
  (pc = "ret" /\ op = "WriteSRAMData" /\ reqAddr = 20 /\ reqSize = 44 /\ result = ERR_OK)
    => chunks = <<(<<20, 12, ERR_OK>>), (<<32, 32, ERR_OK>>)>>

\* C24 (amended): that holds when the handle is in page mode; in byte mode the
\* call makes 44 transactions of one byte, in sequential mode one of 44 bytes.
C24_TwoChunksInPageMode ==
  (pc = "ret" /\ op = "WriteSRAMData" /\ reqAddr = 20 /\ reqSize = 44 /\ result = ERR_OK)
    => LET mode == SRAM23LCxxx_MODE_GET(InternalConfig)
       IN IF mode = SRAM23LCxxx_PAGE_MODE
            THEN chunks = <<(<<20, 12, ERR_OK>>), (<<32, 32, ERR_OK>>)>>
          ELSE IF mode = SRAM23LCxxx_BYTE_MODE
            THEN /\ Len(chunks) = 44
                 /\ \A i \in 1..44 : chunks[i] = <<19 + i, 1, ERR_OK>>
          ELSE chunks = <<(<<20, 44, ERR_OK>>)>>

\* the write of 44 bytes at 20 succeeded on a handle put in page mode before
C24_Witness ==
  /\ pc = "ret" /\ op = "WriteSRAMData" /\ reqAddr = 20 /\ reqSize = 44 /\ result = ERR_OK
  /\ SRAM23LCxxx_MODE_GET(InternalConfig) = SRAM23LCxxx_PAGE_MODE
  /\ Len(chunks) = 2

\* C25: a call of EEPROM_ReadData, EEPROM_WriteData or EEPROM_WaitEndOfWrite
\* returns, given that every transfer returns and the clock keeps advancing; a
\* call that ends on a device still not ready ends with ERR__DEVICE_TIMEOUT; and
\* every completed chunk leaves fewer bytes to transfer.
C25_Terminates ==
  /\ (pc \notin {"idle", "ret"}) ~> (pc = "ret")
  /\ [](pc = "ret" /\ Error \in {ERR__NOT_READY, ERR__I2C_NACK}
          /\ lastPkt.kind \in {"addr", "probe"}
        => result = ERR__DEVICE_TIMEOUT)
  /\ [][pc = "page_ret" /\ pc' = "loop" => size' < size /\ cursor' > cursor]_vars

\* a write gave up on a device that was found busy more often than the
\* transport's fault budget allows
C25_Witness ==
  /\ pc = "ret" /\ op = "WriteData"
  /\ result = ERR__DEVICE_TIMEOUT
  /\ ncalls = MaxCounted
  /\ nfault = 0

\* C26: the chip-address byte of the data packet of __EEPROM_ReadPage and
\* __EEPROM_WritePage is, the R/W bit apart, the chip-address byte of the address
\* packet sent just before it, whatever the address and the pin straps.
C26_SameChipAddressInBothPhases ==
  (pc = "page_ret" /\ lastPkt.kind \in {"rdata", "wdata"})
    => BitAnd(lastPkt.ChipAddr, I2C_WRITE_ANDMASK)
         = WriteAddressChipAddr(conf, AddrA2A1A0, address)

\* C27: a request whose address + size, taken in the integers, exceeds the
\* array is refused with ERR__OUT_OF_MEMORY and puts nothing on the bus, also
\* when the 32-bit sum of the check wraps around.
C27_RefusedDespiteOverflow ==
  (pc = "ret" /\ op \in {"EEPROM_ReadData", "SRAM23LCxxx_ReadSRAMData"}
     /\ ExceedsArray(flags[1], flags[2], flags[3]))
    => result = ERR__OUT_OF_MEMORY /\ trace = << >>

\* C28: a WithDMA call that returns ERR__I2C_BUSY leaves the DMA-in-progress
\* flag set, whether the address packet or the data packet was answered busy.
C28_BusyLeavesFlagSet ==
  (DmaReturned /\ result = ERR__I2C_BUSY)
    => EERAM47x04_IS_DMA_TRANSFER_IN_PROGRESS(InternalConfig)

\* C29: every data packet a WithDMA function hands to the transport asks for a
\* non-blocking transfer.
C29_DataPacketsNonBlocking ==
  DmaReturned =>
    \A i \in 1..Len(trace) :
      trace[i].kind \in {"rdata", "wdata"} => I2C_IS_NON_BLOCKING(trace[i].Config)

\* C30: the write-enable flag of a 48L512 handle is set only by a write-enable
\* command the device accepted, and is clear after any later operation on the
\* device: a set flag means the last command accepted was WREN.
C30_FlagMeansWriteEnabled ==
  /\ (pc = "ret" /\ op = "EERAM48L512_SetWriteEnable"
        /\ EERAM48L512_IS_STATUS_WRITE_ENABLE(InternalConfig))
       => result = ERR_NONE
  /\ (pc = "ret" /\ op = "EERAM48L512_WriteSecure" /\ trace # << >>)
       => ~EERAM48L512_IS_STATUS_WRITE_ENABLE(InternalConfig)

\* the positions of the secure page writes on the bus, and the pages of the request
SecureWrites == {i \in 1..Len(trace) : trace[i].kind = "SWRITE"}
SecurePages == reqSize \div EERAM48L512_PAGE_SIZE

\* the i-th transfer is a status read that was answered and shows a failed secure write
ShowsSecureFailure(i) ==
  /\ trace[i].kind = "RDSR"
  /\ trace[i].Error = ERR_NONE
  /\ BitAnd(trace[i].Status, EERAM48L512_WRITE_SECURE_FAILED) # 0

\* C31: EERAM48L512_WriteSecure reads the status register after each page it has
\* written; the first status that shows secure-write-failed ends the call with
\* ERR__CRC_ERROR and no later page is written; the call returns success only
\* after every page of the request was written, in order, each followed by a
\* status read that was answered and showed no failure.
C31_StatusAfterEachPage ==
  op = "EERAM48L512_WriteSecure" =>
    /\ \A i \in SecureWrites : i < Len(trace) => trace[i + 1].kind = "RDSR"
    /\ \A i \in 1..Len(trace) :
         ShowsSecureFailure(i) =>
           /\ i = Len(trace)
           /\ pc = "ret"
           /\ result = "ERR__CRC_ERROR"
    /\ (pc = "ret" /\ result = "ERR__CRC_ERROR") =>
         /\ trace # << >>
         /\ ShowsSecureFailure(Len(trace))
    /\ (pc = "ret" /\ result = ERR_NONE) =>
         /\ Cardinality(SecureWrites) = SecurePages
         /\ \A k \in 0..(SecurePages - 1) :
              \E i \in SecureWrites :
                /\ Cardinality({j \in SecureWrites : j < i}) = k
                /\ trace[i].addr = reqAddr + k * EERAM48L512_PAGE_SIZE
                /\ i < Len(trace)
                /\ trace[i + 1].kind = "RDSR"
                /\ trace[i + 1].Error = ERR_NONE
                /\ ~ShowsSecureFailure(i + 1)

\* a two-page secure write that ended with ERR__CRC_ERROR after its first page
C31_Witness ==
  /\ op = "EERAM48L512_WriteSecure"
  /\ pc = "ret"
  /\ result = "ERR__CRC_ERROR"
  /\ SecurePages = 2
  /\ Cardinality(SecureWrites) = 1

\* the secure reads and writes of both devices
SecureOps == SecureOps48L512 \cup SecureOps48LM01

\* C32: a secure read or write whose address is not aligned to the page size,
\* whose size is not a multiple of the page size, or whose address + size lies
\* beyond the array returns ERR__ADDRESS_ALIGNMENT, ERR__BAD_DATA_SIZE or
\* ERR__OUT_OF_MEMORY respectively (the first check that applies) and makes no
\* bus transfer.
C32_SecureRefusedWithoutTransfer ==
  (pc = "ret" /\ op \in SecureOps) =>
    LET A == flags[1]
        N == flags[2]
        total == flags[3]
        page == flags[4]
        misaligned == A[2] % page # 0
        badSize == N[2] % page # 0
    IN  /\ misaligned => (result = "ERR__ADDRESS_ALIGNMENT" /\ trace = << >>)
        /\ (~misaligned /\ badSize) => (result = "ERR__BAD_DATA_SIZE" /\ trace = << >>)
        /\ (~misaligned /\ ~badSize /\ ExceedsArray(A, N, total))
             => (result = ERR__OUT_OF_MEMORY /\ trace = << >>)

\* the chunks EEPROM_ReadData / EEPROM_WriteData cut a request of n bytes at a into
RECURSIVE NumChunks(_, _, _)
NumChunks(c, a, n) ==
  IF n = 0 THEN 0
  ELSE 1 + NumChunks(c, a + PageRem(c, a, n), n - PageRem(c, a, n))

\* the milliseconds the chunks that returned spent between their first attempt
\* and their last retry
RECURSIVE SumRetried(_)
SumRetried(cs) ==
  IF cs = << >> THEN 0 ELSE cs[Len(cs)][4] + SumRetried(SubSeq(cs, 1, Len(cs) - 1))

\* the milliseconds a call that has returned spent in its retry loops
RetryTime == SumRetried(chunks) + (IF result = ERR_NONE THEN 0 ELSE waited)

\* C33 (as written): the deadline restarts for each chunk, no retry is made after
\* more than PageWriteTime + 1 ms, and the time a call has spent retrying when it
\* returns is at most the number of chunks of its request times PageWriteTime + 1.
C33_TotalBoundedByChunks ==
  (op \in PagedOps /\ pc = "ret" /\ ~OutOfMemory(conf, reqAddr, reqSize)) =>
    RetryTime <= NumChunks(conf, reqAddr, reqSize) * (conf.PageWriteTime + 1)

\* C33 (amended): while a chunk is attempted the code's StartTime marks that
\* chunk's first attempt, a retry is made only while no more than
\* PageWriteTime + 1 ms have been observed since then, so the chunks that
\* returned spent at most PageWriteTime + 1 ms each before their last retry; the
\* observation that ends a call with ERR__DEVICE_TIMEOUT lies above that bound.
C33_DeadlinePerChunk ==
  op \in PagedOps =>
    /\ pc \in {"page_addr", "page_data", "page_ret"} =>
         /\ EEPROM_TIME_DIFF(StartTime, clock) = U32(waited)
         /\ waited <= conf.PageWriteTime + 1
    /\ \A i \in 1..Len(chunks) : chunks[i][4] <= conf.PageWriteTime + 1
    /\ SumRetried(chunks) <= Len(chunks) * (conf.PageWriteTime + 1)
    /\ TimedOut =>
         /\ waited > conf.PageWriteTime + 1
         /\ EEPROM_TIME_DIFF(StartTime, clock) = U32(waited)

\* a second chunk starts its own deadline after the first chunk was retried
\* PageWriteTime + 1 ms after its first attempt
C33_Witness ==
  /\ op \in PagedOps
  /\ pc = "page_addr"
  /\ Len(chunks) = 1
  /\ chunks[1][4] = conf.PageWriteTime + 1
  /\ waited = 0
  /\ StartTime = clock

UnforcedStore ==
  /\ op = "EERAM47x04_StoreSRAMtoEEPROM"
  /\ flags[1] = FALSE
  /\ pc \notin {"store_status", "store_cmd"}

\* the address phases of a write to the command register
StoreCommands ==
  {i \in 1..Len(trace) : /\ trace[i].kind = "addr"
                         /\ trace[i].Buffer = <<EERAM47x04_COMMAND_REGISTER_ADDR>>}

\* the first transfer is a status read that was answered and shows the array modified
ShowsModified ==
  /\ trace[1].kind = "rdata"
  /\ trace[1].Error = ERR_NONE
  /\ BitAnd(trace[1].Buffer[1], EERAM47x04_ARRAY_MODIFIED) > 0

\* C35: EERAM47x04_StoreSRAMtoEEPROM with forceStore = false starts with one read
\* of the status register and writes STORE to the command register, right after
\* that read, if and only if the read shows the array-modified bit set; a read
\* that shows the bit clear ends the call with success after that single
\* transfer, without a command write and without waiting. The only other status
\* reads are those of the wait after the STORE when waitEndOfStore is given.
C35_StoreOnlyIfModified ==
  UnforcedStore =>
    /\ trace # << >>
    /\ trace[1].kind = "rdata"
    /\ StoreCommands # {} <=> ShowsModified
    /\ StoreCommands \subseteq {2}
    /\ ~flags[2] => \A i \in 2..Len(trace) : trace[i].kind # "rdata"
    /\ ShowsClear(1) =>
         /\ pc = "ret"
         /\ result = ERR_NONE
         /\ Len(trace) = 1
         /\ waited = 0
         /\ elapsed = NoElapsed

\* a store asked to wait found the array unmodified and returned after its status read
C35_Witness ==
  /\ UnforcedStore
  /\ flags[2]
  /\ ShowsClear(1)
  /\ pc = "ret"
  /\ result = ERR_NONE

\* C36: after every return of SRAM23LCxxx_SetIOmode, with success or with an
\* error at any step, the I/O mode recorded in InternalConfig is the I/O mode the
\* device was last switched to by the instructions sent to it and transferred.
C36_RecordedModeIsDeviceMode ==
  (op = "SRAM23LCxxx_SetIOmode" /\ pc = "ret")
    => SRAM23LCxxx_IO_MODE_GET(InternalConfig) = DeviceIOmode

\* the reads and writes of the SRAM array of the 23LCxxx
SramDataOps == {"WriteSRAMData", "ReadSRAMData"}

\* C37: SRAM23LCxxx_ReadSRAMData / SRAM23LCxxx_WriteSRAMData make one transaction
\* per chunk, the chunks following the operation mode recorded in InternalConfig:
\* one data byte each in byte mode, size transactions in all; the whole request in
\* one transaction in sequential mode; in page mode chunks that end at the next
\* 32-byte boundary or at the end of the request. In every mode each chunk starts
\* where the one before ended, the first at address, and on success their
\* lengths add up to size: the range is covered once, in increasing order.
C37_SplitByMode ==
  op \in SramDataOps =>
    LET mode == SRAM23LCxxx_MODE_GET(InternalConfig)
    IN  /\ Len(trace) = Len(chunks)
        /\ \A i \in 1..Len(chunks) :
             LET a == chunks[i][1]
                 n == chunks[i][2]
                 left == reqSize - SumLen(SubSeq(chunks, 1, i - 1))
             IN  /\ a = reqAddr + SumLen(SubSeq(chunks, 1, i - 1))
                 /\ n >= 1
                 /\ n <= left
                 /\ i < Len(chunks) => chunks[i][3] = ERR_OK
                 /\ trace[i] = [kind |-> op, addr |-> a]
                 /\ mode = SRAM23LCxxx_BYTE_MODE => n = 1
                 /\ mode = SRAM23LCxxx_SEQUENTIAL_MODE => (i = 1 /\ n = reqSize)
                 /\ mode = SRAM23LCxxx_PAGE_MODE =>
                      /\ a \div SRAM23x640_PageSize = (a + n - 1) \div SRAM23x640_PageSize
                      /\ n < left => (a + n) % SRAM23x640_PageSize = 0
        /\ (pc = "ret" /\ result = ERR_OK) =>
             /\ SumLen(chunks) = reqSize
             /\ \A i \in 1..Len(chunks) : chunks[i][3] = ERR_OK
             /\ mode = SRAM23LCxxx_BYTE_MODE => Len(chunks) = reqSize
             /\ mode = SRAM23LCxxx_SEQUENTIAL_MODE =>
                  Len(chunks) = (IF reqSize > 0 THEN 1 ELSE 0)

\* a read of 44 bytes at 20 succeeded in one transaction on a handle put in
\* sequential mode before
C37_Witness ==
  /\ pc = "ret" /\ op = "ReadSRAMData" /\ reqAddr = 20 /\ reqSize = 44 /\ result = ERR_OK
  /\ SRAM23LCxxx_MODE_GET(InternalConfig) = SRAM23LCxxx_SEQUENTIAL_MODE
  /\ chunks = <<(<<20, 44, ERR_OK>>)>>
====
